---- MODULE Spec2Model ----
(***************************************************************************)
(* Verification model of stone-age-io/agent: the metrics collectors and    *)
(* their rate cache, the command executor's whitelist gate, the OS service *)
(* adapter, the command handlers with panic recovery and self-metrics, and *)
(* the agent lifecycle (startup order, shutdown order, bus drain).         *)
(*                                                                         *)
(* Conventions.  Time is counted in whole minutes.  The state keeps every  *)
(* stored instant as its distance to the current clock (sinceTimestamp is  *)
(* now - lastTimestamp); inside a call the instants are absolute again,    *)
(* counted from Epoch, and time.Time{} (the zero time) is 0.  Values that  *)
(* the code rounds with utils.Round are carried as integers counting       *)
(* hundredths.  Floating point error is not modelled.                      *)
(***************************************************************************)
EXTENDS Integers, Sequences, FiniteSets, TLC

(***************************************************************************)
(* Bounds of the model                                                     *)
(***************************************************************************)
MaxElapsed == 12
MaxCounter == 2

(***************************************************************************)
(* Program constants                                                       *)
(***************************************************************************)
\* const maxMetricsCacheAge = 10 * time.Minute, in minutes
maxMetricsCacheAge == 10

\* the drives of the host; every drive is handled on its own, under its own key
Drives == {"/"}
Counters == 0..MaxCounter
\* time that can pass between two clock reads inside one call
CallDelays == {0, 1}
\* time that can pass between two calls
TickSteps == {5, 10, 11}
\* the instant a call is entered, in the absolute time used inside the call
Epoch == MaxElapsed + 1
\* stand-in for 2^64: the width of disk.IOCountersStat.ReadBytes (uint64)
\* scaled down to what the checker's integers can hold
Uint64Modulus == 2 ^ 10

VARIABLES
    kind,               \* which collector NewMetricsCollector constructed
    pc,                 \* where the running ScrapeMetrics call stands; "idle": none runs
    sinceTimestamp,     \* now - lastTimestamp of the cache; -1: lastTimestamp is zero
    hasCPUTimes,        \* BuiltinCollector.hasCPUTimes
    lastCPU,            \* previous cumulative CPU times (total, idle)
    lastDisk,           \* previous I/O counters keyed by drive
    out,                \* the metrics of the running call, and what it returned
    scrapeErr,          \* the error ScrapeMetrics returned
    lastOp,             \* the collector operation that ran last
    fresh,              \* no Collect has run since creation or ResetCache
    wasFirst,           \* this Collect is the first since creation or ResetCache
    dropped,            \* this Collect dropped a stale cache on entry
    gap,                \* how long before this Collect the previous sample was taken
    sinceEntry,         \* now - the instant the latest sample was entered; -1: none
    sinceReturn,        \* now - the instant the latest sample returned; -1: none
    callAge,            \* now - the instant the running call was entered
    tookCPU             \* the running builtin Collect has read the CPU times

collectorVars == <<kind, pc, sinceTimestamp, hasCPUTimes, lastCPU, lastDisk, out,
                   scrapeErr, lastOp, fresh, wasFirst, dropped, gap, sinceEntry,
                   sinceReturn, callAge, tookCPU>>

(***************************************************************************)
(* utils.Round and arithmetic helpers                                      *)
(***************************************************************************)
\* nearest integer to n/d (d > 0), halves away from zero: math.Round
RoundDiv(n, d) ==
    IF n >= 0 THEN (2 * n + d) \div (2 * d)
              ELSE -((2 * (-n) + d) \div (2 * d))

\* utils.Round(p/q), expressed in hundredths
Round(p, q) == RoundDiv(100 * p, q)

\* time.Duration.Seconds() of a duration given in minutes
Seconds(m) == 60 * m

\* the I/O counters of the model count blocks of this many bytes
BytesPerCount == Seconds(1)

\* uint64 subtraction io.ReadBytes - prev.ReadBytes (wraps around)
Uint64Sub(a, b) == (a - b) % Uint64Modulus

(***************************************************************************)
(* Collector cache                                                         *)
(***************************************************************************)
NoEntry == [has |-> FALSE, read |-> 0, write |-> 0]
NoCPU == [total |-> 0, idle |-> 0]
EmptyDisks == [v \in Drives |-> NoEntry]

EmptyCache ==
    [ts |-> 0, hasCPU |-> FALSE, cpu |-> NoCPU, disk |-> EmptyDisks]

\* the instant that lies e before the instant t; -1 stands for the zero time
Before(t, e) == IF e = -1 THEN 0 ELSE t - e
\* the distance of the instant ts to the instant t; the zero time gives -1
Since(t, ts) == IF ts = 0 THEN -1 ELSE t - ts

\* the cache as a call entered at instant t finds it
CurrentCache(t) ==
    [ts |-> Before(t, sinceTimestamp), hasCPU |-> hasCPUTimes, cpu |-> lastCPU,
     disk |-> lastDisk]

\* resetCacheIfStale (both collectors): strictly older than the maximum age
IsStale(cache, t) == cache.ts # 0 /\ t - cache.ts > maxMetricsCacheAge

resetCacheIfStale(cache, t) == IF IsStale(cache, t) THEN EmptyCache ELSE cache

(***************************************************************************)
(* Returned metrics                                                        *)
(***************************************************************************)
NoDisk == [incl |-> FALSE, free |-> 0, total |-> 0, pct |-> 0, read |-> 0, write |-> 0]
NoMetrics == [err |-> TRUE, cpu |-> 0, mem |-> 0, disks |-> [v \in Drives |-> NoDisk]]
NoOutput == [err |-> FALSE, cpu |-> 0, mem |-> 0, disks |-> [v \in Drives |-> NoDisk]]

(***************************************************************************)
(* BuiltinCollector                                                        *)
(***************************************************************************)
\* readings the OS can hand to one builtin Collect
CPUReadings == {c \in [total : Counters, idle : Counters] : c.idle <= c.total}
NoCPUReading == [total |-> 0, idle |-> 0]
\* I/O counters of one device: none reported, or a read and a write counter
IOReadings ==
    {[io |-> FALSE, read |-> 0, write |-> 0]} \cup
    {r \in [io : {TRUE}, read : Counters, write : Counters] : r.write \in {0, r.read}}
\* cpu.Times fails, or reports
BuiltinCPUInputs ==
    {i \in [cpuErr : BOOLEAN, cpu : CPUReadings] : i.cpuErr => i.cpu = NoCPUReading}
\* disk.Partitions fails, disk.IOCounters fails, or both report
BuiltinDiskInputs ==
    {i \in [partErr : BOOLEAN, ioNil : BOOLEAN, dev : [Drives -> IOReadings]] :
        /\ i.partErr => ~i.ioNil
        /\ (i.partErr \/ i.ioNil) => \A v \in Drives : ~i.dev[v].io}

\* collectCPU without the baseline branch: the first reading is compared with
\* the zero value of lastCPUTimes
collectCPUNoBaseline(cache, in, t) ==
    IF in.cpuErr THEN [cache |-> cache, cpu |-> 0]
    ELSE LET totalDelta == in.cpu.total - cache.cpu.total
             idleDelta == in.cpu.idle - cache.cpu.idle
         IN [cache |-> [cache EXCEPT !.cpu = in.cpu, !.hasCPU = TRUE, !.ts = t],
             cpu |-> IF totalDelta <= 0 THEN 0
                     ELSE Round(100 * (totalDelta - idleDelta), totalDelta)]

\* collectCPU at time t: returns the new cache and the CPU percentage
collectCPU(cache, in, t) ==
    IF in.cpuErr THEN [cache |-> cache, cpu |-> 0]
    ELSE IF ~cache.hasCPU
    THEN [cache |-> [cache EXCEPT !.cpu = in.cpu, !.hasCPU = TRUE, !.ts = t],
          cpu |-> 0]
    ELSE LET totalDelta == in.cpu.total - cache.cpu.total
             idleDelta == in.cpu.idle - cache.cpu.idle
         IN [cache |-> [cache EXCEPT !.cpu = in.cpu, !.ts = t],
             cpu |-> IF totalDelta <= 0 THEN 0
                     ELSE Round(100 * (totalDelta - idleDelta), totalDelta)]

\* one partition of collectDisks: the returned DiskMetrics
BuiltinDiskMetrics(cache, in, v, isFirstScrape, timeDelta) ==
    LET io == in.dev[v]
        prev == cache.disk[v]
        rates == ~in.ioNil /\ ~isFirstScrape /\ timeDelta > 0 /\ io.io /\ prev.has
    IN [incl |-> TRUE, free |-> 1, total |-> 2, pct |-> Round(100 * 1, 2),
        read |-> IF rates
                 THEN Round(BytesPerCount * Uint64Sub(io.read, prev.read), Seconds(timeDelta))
                 ELSE 0,
        write |-> IF rates
                  THEN Round(BytesPerCount * Uint64Sub(io.write, prev.write), Seconds(timeDelta))
                  ELSE 0]

\* one partition of collectDisks: the counters left in lastDiskIO
BuiltinDiskStore(cache, in, v) ==
    IF ~in.ioNil /\ in.dev[v].io
    THEN [has |-> TRUE, read |-> in.dev[v].read, write |-> in.dev[v].write]
    ELSE cache.disk[v]

\* collectDisks with its clock read at time t
collectDisks(cache, in, t) ==
    IF in.partErr THEN [cache |-> cache, disks |-> [v \in Drives |-> NoDisk]]
    ELSE LET timeDelta == t - cache.ts
             isFirstScrape == cache.ts = 0
         IN [cache |-> [cache EXCEPT
                          !.disk = [v \in Drives |-> BuiltinDiskStore(cache, in, v)],
                          !.ts = IF cache.ts = 0 THEN t ELSE cache.ts],
             disks |-> [v \in Drives |->
                          BuiltinDiskMetrics(cache, in, v, isFirstScrape, timeDelta)]]

(***************************************************************************)
(* ExporterCollector                                                       *)
(***************************************************************************)
\* gauges of one scrape (GB): memory free, and free and size of every volume;
\* an exporter can leave the volume gauges out or report malformed (negative) values
GaugeReadings == {[mem |-> 1, space |-> TRUE, free |-> 1, total |-> 2],
                  [mem |-> -1, space |-> TRUE, free |-> 1, total |-> 2],
                  [mem |-> 1, space |-> TRUE, free |-> -1, total |-> 2],
                  [mem |-> 1, space |-> FALSE, free |-> 0, total |-> 0]}
NoGauges == [mem |-> 1, space |-> FALSE, free |-> 0, total |-> 0]
\* the CPU family of a decoded body: absent, or the sums of its counters
ExporterCPUInputs ==
    {i \in [cpuFamily : BOOLEAN, cpu : CPUReadings] : ~i.cpuFamily => i.cpu = NoCPUReading}
\* the gauges and the disk counter families of a decoded body
ExporterDiskInputs == [gauges : GaugeReadings, dev : [Drives -> IOReadings]]

\* the CPU part reporting the idle share instead of the busy share
ExporterCPUIdleShare(cache, in) ==
    IF ~in.cpuFamily THEN [cache |-> cache, cpu |-> 0]
    ELSE LET totalDelta == in.cpu.total - cache.cpu.total
             idleDelta == in.cpu.idle - cache.cpu.idle
             calc == cache.ts # 0 /\ in.cpu.total > 0 /\ cache.cpu.total > 0
                     /\ totalDelta > 0
         IN [cache |-> [cache EXCEPT !.cpu = in.cpu],
             cpu |-> IF calc THEN Round(100 * idleDelta, totalDelta) ELSE 0]

\* parsePrometheusMetrics, CPU part: lines 149-199
ExporterCPU(cache, in) ==
    IF ~in.cpuFamily THEN [cache |-> cache, cpu |-> 0]
    ELSE LET totalDelta == in.cpu.total - cache.cpu.total
             idleDelta == in.cpu.idle - cache.cpu.idle
             calc == cache.ts # 0 /\ in.cpu.total > 0 /\ cache.cpu.total > 0
                     /\ totalDelta > 0
         IN [cache |-> [cache EXCEPT !.cpu = in.cpu],
             cpu |-> IF calc THEN Round(100 * totalDelta - 100 * idleDelta, totalDelta)
                     ELSE 0]

\* a rate is computed only against a known, positive previous counter
ExporterRate(cur, hasPrev, prev, timeDelta) ==
    IF hasPrev /\ prev > 0
    THEN Round(BytesPerCount * (cur - prev), Seconds(timeDelta)) ELSE 0

\* parsePrometheusMetrics, one volume: the DiskMetrics put into diskData
ExporterDiskMetrics(cache, in, v, timeDelta) ==
    LET io == in.dev[v]
        sp == in.gauges
        prev == cache.disk[v]
        rates == cache.ts # 0 /\ timeDelta > 0 /\ io.io
        rd == IF rates THEN ExporterRate(io.read, prev.has, prev.read, timeDelta) ELSE 0
        wr == IF rates THEN ExporterRate(io.write, prev.has, prev.write, timeDelta) ELSE 0
        totalGB == IF sp.space THEN sp.total ELSE 0
    IN [incl |-> totalGB > 0 \/ rd > 0 \/ wr > 0,
        free |-> IF sp.space THEN sp.free ELSE 0,
        total |-> totalGB,
        pct |-> IF sp.space /\ sp.free > 0 /\ sp.total > 0
                THEN Round(100 * sp.free, sp.total) ELSE 0,
        read |-> rd, write |-> wr]

\* the counters of a volume kept as the previous sample left them
ExporterDiskStoreKeeping(cache, in, v, timeDelta) == cache.disk[v]

\* parsePrometheusMetrics, one volume: the counters left in lastDiskMetrics
ExporterDiskStore(cache, in, v, timeDelta) ==
    IF in.dev[v].io /\ (cache.ts = 0 \/ timeDelta > 0)
    THEN [has |-> TRUE, read |-> in.dev[v].read, write |-> in.dev[v].write]
    ELSE cache.disk[v]

\* a drive left out of the returned list
Excluded(dm) == IF dm.incl THEN dm ELSE NoDisk

\* parsePrometheusMetrics, lines 234-366: gauges, disk rates and the disk list,
\* with its clock read at time t
ExporterDisks(cache, in, t) ==
    LET timeDelta == t - cache.ts
    IN [cache |-> [cache EXCEPT
                     !.disk = [v \in Drives |-> ExporterDiskStore(cache, in, v, timeDelta)],
                     !.ts = t],
        mem |-> in.gauges.mem,
        disks |-> [v \in Drives |->
                     Excluded(ExporterDiskMetrics(cache, in, v, timeDelta))]]

(***************************************************************************)
(* validateMetrics and Executor.ScrapeMetrics                              *)
(***************************************************************************)
\* TRUE when validateMetrics returns an error
validateMetrics(m) ==
    LET isFirstScrape == m.cpu = 0
    IN \/ ~isFirstScrape /\ (m.cpu < 0 \/ m.cpu > 100 * 100)
       \/ m.mem < 0
       \/ \E v \in Drives :
            /\ m.disks[v].incl
            /\ \/ m.disks[v].pct < 0 \/ m.disks[v].pct > 100 * 100
               \/ m.disks[v].free < 0
               \/ m.disks[v].total < 0
               \/ ~isFirstScrape /\ (m.disks[v].read < 0 \/ m.disks[v].write < 0)

(***************************************************************************)
(* Collector operations.  A ScrapeMetrics call runs in steps, one for each *)
(* section that takes the collector's lock; the scheduler issues one call  *)
(* at a time.                                                              *)
(***************************************************************************)
InitCollector ==
    /\ kind \in {"builtin", "exporter"}
    /\ pc = "idle"
    /\ sinceTimestamp = -1
    /\ hasCPUTimes = FALSE
    /\ lastCPU = NoCPU
    /\ lastDisk = EmptyDisks
    /\ out = NoOutput
    /\ scrapeErr = "none"
    /\ lastOp = "new"
    /\ fresh = TRUE
    /\ wasFirst = FALSE
    /\ dropped = FALSE
    /\ gap = "none"
    /\ sinceEntry = -1
    /\ sinceReturn = -1
    /\ callAge = 0
    /\ tookCPU = FALSE

\* d minutes later
Later(e, d) == IF e = -1 THEN -1 ELSE e + d

\* every distance the state keeps stays within the horizon after s more minutes
WithinHorizon(s) ==
    /\ sinceTimestamp + s <= MaxElapsed
    /\ sinceEntry + s <= MaxElapsed

\* the cache c, as the state keeps it at instant t
StoreCache(c, t) ==
    /\ sinceTimestamp' = Since(t, c.ts)
    /\ hasCPUTimes' = c.hasCPU
    /\ lastCPU' = c.cpu
    /\ lastDisk' = c.disk

\* how the previous sample lies to a call entered now
GapNow ==
    IF sinceEntry = -1 THEN "none"
    ELSE IF sinceEntry <= maxMetricsCacheAge THEN "within"
    ELSE IF sinceReturn > maxMetricsCacheAge THEN "beyond"
    ELSE "straddling"

\* Collect, first statement: resetCacheIfStale
EnterCollect ==
    /\ pc = "idle"
    /\ pc' = IF kind = "builtin" THEN "cpu" ELSE "fetch"
    /\ \E c \in {resetCacheIfStale(CurrentCache(Epoch), Epoch)} :
         /\ StoreCache(c, Epoch)
         /\ dropped' = (c # CurrentCache(Epoch))
    /\ out' = NoOutput
    /\ scrapeErr' = "none"
    /\ lastOp' = "Collecting"
    /\ wasFirst' = fresh
    /\ fresh' = FALSE
    /\ gap' = GapNow
    /\ callAge' = 0
    /\ tookCPU' = FALSE
    /\ UNCHANGED <<kind, sinceEntry, sinceReturn>>

\* ScrapeMetrics returns: Collect's result m goes through validateMetrics
Return(m) ==
    /\ pc' = "idle"
    /\ out' = m
    /\ scrapeErr' = IF m.err THEN "collect"
                    ELSE IF validateMetrics(m) THEN "invalid" ELSE "none"
    /\ lastOp' = "Collect"
    /\ callAge' = 0
    /\ tookCPU' = FALSE
    /\ UNCHANGED <<kind, fresh, wasFirst, dropped, gap>>

\* BuiltinCollector.Collect: collectCPU
BuiltinCPU ==
    /\ kind = "builtin" /\ pc = "cpu"
    /\ \E in \in BuiltinCPUInputs :
         \E r \in {collectCPU(CurrentCache(Epoch), in, Epoch)} :
            /\ StoreCache(r.cache, Epoch)
            /\ out' = [out EXCEPT !.cpu = r.cpu]
            /\ tookCPU' = ~in.cpuErr
    /\ pc' = "disks"
    /\ UNCHANGED <<kind, scrapeErr, lastOp, fresh, wasFirst, dropped, gap, sinceEntry,
                   sinceReturn, callAge>>

\* BuiltinCollector.Collect: collectMemory, collectDisks d minutes later, return
BuiltinDisks ==
    /\ kind = "builtin" /\ pc = "disks"
    /\ \E in \in BuiltinDiskInputs, d \in CallDelays :
         /\ WithinHorizon(d)
         /\ \E r \in {collectDisks(CurrentCache(Epoch), in, Epoch + d)} :
              /\ StoreCache(r.cache, Epoch + d)
              /\ Return([err |-> FALSE, cpu |-> out.cpu, mem |-> 1, disks |-> r.disks])
              /\ sinceEntry' = IF tookCPU \/ ~in.partErr THEN callAge + d
                               ELSE Later(sinceEntry, d)
              /\ sinceReturn' = IF tookCPU \/ ~in.partErr THEN 0
                                ELSE Later(sinceReturn, d)

\* ExporterCollector.Collect: the HTTP exchange and the decoding of its body,
\* taking d minutes; a failure returns the error
ExporterFetch ==
    /\ kind = "exporter" /\ pc = "fetch"
    /\ \E http \in {"ok", "fail"}, d \in CallDelays :
         /\ WithinHorizon(d)
         /\ sinceTimestamp' = Later(sinceTimestamp, d)
         /\ sinceEntry' = Later(sinceEntry, d)
         /\ sinceReturn' = Later(sinceReturn, d)
         /\ IF http = "ok"
            THEN /\ pc' = "cpu"
                 /\ callAge' = callAge + d
                 /\ UNCHANGED <<out, scrapeErr, lastOp, tookCPU>>
            ELSE /\ Return(NoMetrics)
    /\ UNCHANGED <<kind, hasCPUTimes, lastCPU, lastDisk, fresh, wasFirst, dropped, gap>>

\* parsePrometheusMetrics: the CPU section
ExporterCPUSection ==
    /\ kind = "exporter" /\ pc = "cpu"
    /\ \E in \in ExporterCPUInputs :
         \E r \in {ExporterCPU(CurrentCache(Epoch), in)} :
            /\ StoreCache(r.cache, Epoch)
            /\ out' = [out EXCEPT !.cpu = r.cpu]
    /\ pc' = "disks"
    /\ UNCHANGED <<kind, scrapeErr, lastOp, fresh, wasFirst, dropped, gap, sinceEntry,
                   sinceReturn, callAge, tookCPU>>

\* parsePrometheusMetrics: the gauges and the disk section, then the return
ExporterDiskSection ==
    /\ kind = "exporter" /\ pc = "disks"
    /\ \E in \in ExporterDiskInputs :
         \E r \in {ExporterDisks(CurrentCache(Epoch), in, Epoch)} :
            /\ StoreCache(r.cache, Epoch)
            /\ Return([err |-> FALSE, cpu |-> out.cpu, mem |-> r.mem, disks |-> r.disks])
    /\ sinceEntry' = callAge
    /\ sinceReturn' = 0

\* ResetCache of either collector
ResetCache ==
    /\ pc = "idle"
    /\ StoreCache(EmptyCache, Epoch)
    /\ lastOp' = "ResetCache"
    /\ fresh' = TRUE
    /\ wasFirst' = FALSE
    /\ dropped' = FALSE
    /\ gap' = "none"
    /\ sinceEntry' = -1
    /\ sinceReturn' = -1
    /\ out' = NoOutput
    /\ scrapeErr' = "none"
    /\ UNCHANGED <<kind, pc, callAge, tookCPU>>

\* time passing between two calls
Tick ==
    /\ pc = "idle"
    /\ \E s \in TickSteps :
         /\ WithinHorizon(s)
         /\ sinceTimestamp' = Later(sinceTimestamp, s)
         /\ sinceEntry' = Later(sinceEntry, s)
         /\ sinceReturn' = Later(sinceReturn, s)
    /\ lastOp' = "Tick"
    /\ wasFirst' = FALSE
    /\ dropped' = FALSE
    /\ gap' = "none"
    /\ out' = NoOutput
    /\ scrapeErr' = "none"
    /\ UNCHANGED <<kind, pc, hasCPUTimes, lastCPU, lastDisk, fresh, callAge, tookCPU>>

NextCollector ==
    \/ EnterCollect \/ BuiltinCPU \/ BuiltinDisks
    \/ ExporterFetch \/ ExporterCPUSection \/ ExporterDiskSection
    \/ ResetCache \/ Tick

(***************************************************************************)
(* Properties of the collectors                                            *)
(***************************************************************************)
\* a Collect has returned metrics
Collected == pc = "idle" /\ lastOp = "Collect" /\ ~out.err

ZeroRates(m) == \A v \in Drives : m.disks[v].read = 0 /\ m.disks[v].write = 0

\* C1: with either collector, the first Collect after creation, and after every
\* ResetCache, returns a CPU usage of 0 and a read and a write rate of 0 for
\* every disk.
C1_FirstCollectReturnsZero ==
    (Collected /\ wasFirst) => (out.cpu = 0 /\ ZeroRates(out))

\* the first Collect read nonzero CPU and disk counters and reported the drive
C1_Witness ==
    /\ Collected /\ wasFirst
    /\ lastCPU.total > lastCPU.idle
    /\ \E v \in Drives : out.disks[v].incl /\ lastDisk[v].has /\ lastDisk[v].read > 0

\* C2: a Collect entered more than 10 minutes after the previous sample drops
\* the whole cache and returns zero rates; a Collect entered 10 minutes or less
\* after the previous sample keeps the cache.
C2_DropExactlyWhenStale ==
    Collected =>
        /\ gap = "beyond" => (dropped /\ out.cpu = 0 /\ ZeroRates(out))
        /\ gap = "within" => ~dropped

\* C3: a second or later sample taken within 10 minutes of the previous one
\* that ScrapeMetrics returns without error has a CPU usage between 0 and 100
\* and no negative disk rate.
C3_LaterSamplesValidated ==
    (Collected /\ gap = "within" /\ scrapeErr = "none") =>
        /\ out.cpu >= 0 /\ out.cpu <= 100 * 100
        /\ \A v \in Drives : out.disks[v].read >= 0 /\ out.disks[v].write >= 0

(***************************************************************************)
(* Samples with their readings on record.  The same collectors, run on an  *)
(* absolute clock: every Collect keeps the cache it found, the readings it *)
(* consumed and the instants of the samples, and ResetCache can be called  *)
(* by another goroutine between two lock sections of a running Collect.    *)
(***************************************************************************)
VARIABLES
    collectorKind,      \* which collector NewMetricsCollector constructed
    position,           \* the lock section the running Collect comes to next; "idle": none runs
    clock,              \* the current time in minutes
    cache,              \* lastTimestamp, hasCPUTimes, lastCPUTimes, lastDiskIO
    entryCache,         \* the cache the latest Collect went on with after resetCacheIfStale
    taken,              \* the readings the latest Collect consumed
    returned,           \* the metrics the latest Collect returned
    serialCache,        \* the cache of the latest Collect had it started on a reset cache
    resetDuring,        \* a ResetCache ran between two sections of the latest Collect
    firstSample,        \* the latest Collect is the first since creation or ResetCache
    droppedStale,       \* the latest Collect dropped a stale cache on entry
    times,              \* entry and return of the previous sample and of the latest Collect
    sampleOp            \* the operation that ran last

sampleVars == <<collectorKind, position, clock, cache, entryCache, taken, returned,
                serialCache, resetDuring, firstSample, droppedStale, times, sampleOp>>

NoReadings == [cpuRead |-> FALSE, cpu |-> NoCPUReading, diskRead |-> FALSE,
               dev |-> [v \in Drives |-> [io |-> FALSE, read |-> 0, write |-> 0]]]
NoTimes == [prevIn |-> 0, prevOut |-> 0, prevDev |-> [v \in Drives |-> FALSE],
            in |-> 0, out |-> 0, dev |-> [v \in Drives |-> FALSE]]

\* the decoded bodies of this section: well-formed gauges, present or absent
SampleDiskInputs == {i \in ExporterDiskInputs : i.gauges.mem >= 0 /\ i.gauges.free >= 0}

InitSamples ==
    /\ collectorKind \in {"builtin", "exporter"}
    /\ position = "idle"
    /\ clock = 1
    /\ cache = EmptyCache
    /\ entryCache = EmptyCache
    /\ taken = NoReadings
    /\ returned = NoOutput
    /\ serialCache = EmptyCache
    /\ resetDuring = FALSE
    /\ firstSample = FALSE
    /\ droppedStale = FALSE
    /\ times = NoTimes
    /\ sampleOp = "new"

\* the sample instants as a Collect entered at instant t finds them
EnterTimes(tm, t) ==
    IF tm.out # 0
    THEN [prevIn |-> tm.in, prevOut |-> tm.out, prevDev |-> tm.dev,
          in |-> t, out |-> 0, dev |-> [v \in Drives |-> FALSE]]
    ELSE [tm EXCEPT !.in = t]

\* the instant t of the return of a sample that read the counters dev
ReturnTimes(tm, rd, t) ==
    [tm EXCEPT !.out = t, !.dev = [v \in Drives |-> rd.diskRead /\ rd.dev[v].io]]

\* Collect, first lock section: resetCacheIfStale
CollectEnter ==
    /\ position = "idle" /\ sampleOp # "Collect"
    /\ position' = IF collectorKind = "builtin" THEN "cpu" ELSE "fetch"
    /\ cache' = resetCacheIfStale(cache, clock)
    /\ entryCache' = cache'
    /\ droppedStale' = (cache' # cache)
    /\ firstSample' = (resetDuring \/ (times.out = 0 /\ times.prevOut = 0))
    /\ times' = IF droppedStale' \/ firstSample' THEN [NoTimes EXCEPT !.in = clock]
                ELSE EnterTimes(times, clock)
    /\ taken' = NoReadings
    /\ returned' = NoOutput
    /\ serialCache' = EmptyCache
    /\ resetDuring' = FALSE
    /\ sampleOp' = "Collecting"
    /\ UNCHANGED <<collectorKind, clock>>

\* BuiltinCollector.Collect, second lock section: collectCPU
CollectBuiltinCPU ==
    /\ collectorKind = "builtin" /\ position = "cpu"
    /\ \E in \in BuiltinCPUInputs :
         /\ cache' = collectCPU(cache, in, clock).cache
         /\ serialCache' = collectCPU(serialCache, in, clock).cache
         /\ returned' = [returned EXCEPT !.cpu = collectCPU(cache, in, clock).cpu]
         /\ taken' = [taken EXCEPT !.cpuRead = ~in.cpuErr, !.cpu = in.cpu]
    /\ position' = "disks"
    /\ UNCHANGED <<collectorKind, clock, entryCache, resetDuring, firstSample,
                   droppedStale, times, sampleOp>>

\* BuiltinCollector.Collect: collectMemory, then collectDisks reading the clock
\* d minutes after collectCPU did, and the return
CollectBuiltinDisks ==
    /\ collectorKind = "builtin" /\ position = "disks"
    /\ \E in \in BuiltinDiskInputs, d \in CallDelays :
         /\ clock + d <= MaxElapsed
         /\ clock' = clock + d
         /\ cache' = collectDisks(cache, in, clock').cache
         /\ serialCache' = collectDisks(serialCache, in, clock').cache
         /\ returned' = [returned EXCEPT !.mem = 1,
                                         !.disks = collectDisks(cache, in, clock').disks]
         /\ taken' = [taken EXCEPT !.diskRead = ~in.partErr /\ ~in.ioNil, !.dev = in.dev]
    /\ position' = "idle"
    /\ times' = ReturnTimes(times, taken', clock')
    /\ sampleOp' = "Collect"
    /\ UNCHANGED <<collectorKind, entryCache, resetDuring, firstSample, droppedStale>>

\* the HTTP exchange dropping the cache when it fails
CollectExporterFetchDroppingCache ==
    /\ collectorKind = "exporter" /\ position = "fetch"
    /\ \E http \in {"ok", "fail"}, d \in CallDelays :
         /\ clock + d <= MaxElapsed
         /\ clock' = clock + d
         /\ IF http = "ok"
            THEN /\ position' = "cpu"
                 /\ UNCHANGED <<returned, sampleOp, cache>>
            ELSE /\ position' = "idle"
                 /\ returned' = NoMetrics
                 /\ sampleOp' = "Collect"
                 /\ cache' = EmptyCache
    /\ UNCHANGED <<collectorKind, entryCache, taken, serialCache, resetDuring,
                   firstSample, droppedStale, times>>

\* ExporterCollector.Collect: the HTTP exchange, taking d minutes; a failure
\* returns the error and leaves the cache alone
CollectExporterFetch ==
    /\ collectorKind = "exporter" /\ position = "fetch"
    /\ \E http \in {"ok", "fail"}, d \in CallDelays :
         /\ clock + d <= MaxElapsed
         /\ clock' = clock + d
         /\ IF http = "ok"
            THEN /\ position' = "cpu"
                 /\ UNCHANGED <<returned, sampleOp>>
            ELSE /\ position' = "idle"
                 /\ returned' = NoMetrics
                 /\ sampleOp' = "Collect"
    /\ UNCHANGED <<collectorKind, cache, entryCache, taken, serialCache, resetDuring,
                   firstSample, droppedStale, times>>

\* parsePrometheusMetrics: the lock section of the CPU family
CollectExporterCPU ==
    /\ collectorKind = "exporter" /\ position = "cpu"
    /\ \E in \in ExporterCPUInputs :
         /\ cache' = ExporterCPU(cache, in).cache
         /\ serialCache' = ExporterCPU(serialCache, in).cache
         /\ returned' = [returned EXCEPT !.cpu = ExporterCPU(cache, in).cpu]
         /\ taken' = [taken EXCEPT !.cpuRead = in.cpuFamily, !.cpu = in.cpu]
    /\ position' = "disks"
    /\ UNCHANGED <<collectorKind, clock, entryCache, resetDuring, firstSample,
                   droppedStale, times, sampleOp>>

\* parsePrometheusMetrics: the gauges, the lock section of the disk counters,
\* and the return
CollectExporterDisks ==
    /\ collectorKind = "exporter" /\ position = "disks"
    /\ \E in \in SampleDiskInputs :
         /\ cache' = ExporterDisks(cache, in, clock).cache
         /\ serialCache' = ExporterDisks(serialCache, in, clock).cache
         /\ returned' = [returned EXCEPT !.mem = ExporterDisks(cache, in, clock).mem,
                                         !.disks = ExporterDisks(cache, in, clock).disks]
         /\ taken' = [taken EXCEPT !.diskRead = TRUE, !.dev = in.dev]
    /\ position' = "idle"
    /\ times' = ReturnTimes(times, taken', clock)
    /\ sampleOp' = "Collect"
    /\ UNCHANGED <<collectorKind, clock, entryCache, resetDuring, firstSample,
                   droppedStale>>

\* ResetCache, called while no Collect runs
ResetCacheIdle ==
    /\ position = "idle"
    /\ cache' = EmptyCache
    /\ sampleOp' = "ResetCache"
    /\ entryCache' = EmptyCache
    /\ taken' = NoReadings
    /\ returned' = NoOutput
    /\ serialCache' = EmptyCache
    /\ resetDuring' = FALSE
    /\ firstSample' = FALSE
    /\ droppedStale' = FALSE
    /\ times' = NoTimes
    /\ UNCHANGED <<collectorKind, position, clock>>

\* ResetCache, called once by another goroutine while a Collect is between two
\* of its lock sections
ResetCacheDuringCollect ==
    /\ position \in {"cpu", "disks", "fetch"} /\ ~resetDuring
    /\ cache' = EmptyCache
    /\ resetDuring' = TRUE
    /\ UNCHANGED <<collectorKind, position, clock, entryCache, taken, returned,
                   serialCache, firstSample, droppedStale, times, sampleOp>>

\* time passing between two calls that find something in the cache
SampleTick ==
    /\ position = "idle"
    /\ sampleOp = "Collect"
    /\ \E s \in TickSteps :
         /\ clock + s <= MaxElapsed
         /\ clock' = clock + s
    /\ sampleOp' = "Tick"
    /\ entryCache' = EmptyCache
    /\ taken' = NoReadings
    /\ returned' = NoOutput
    /\ serialCache' = EmptyCache
    /\ firstSample' = FALSE
    /\ droppedStale' = FALSE
    /\ UNCHANGED <<collectorKind, position, cache, resetDuring, times>>

\* one caller at a time, as the scheduler issues the calls
NextSamples ==
    \/ CollectEnter \/ CollectBuiltinCPU \/ CollectBuiltinDisks
    \/ CollectExporterFetch \/ CollectExporterCPU \/ CollectExporterDisks
    \/ ResetCacheIdle \/ SampleTick

\* a second goroutine calling ResetCache at any time
NextConcurrent == NextSamples \/ ResetCacheDuringCollect

(***************************************************************************)
(* Properties of the samples                                               *)
(***************************************************************************)
\* the latest Collect has returned
SampleReturned == position = "idle" /\ sampleOp = "Collect"

\* C11: a ResetCache that runs concurrently with a Collect leaves the cache as
\* one of the two serial orders does: empty (Collect, then ResetCache), or as
\* the same Collect builds it on a reset cache (ResetCache, then Collect).
C11_InterleavingsSerializable ==
    (SampleReturned /\ resetDuring) => cache \in {EmptyCache, serialCache}

\* the Collect returned metrics, ran alone, and was not a first sample
LaterSample ==
    /\ SampleReturned /\ ~returned.err /\ ~resetDuring
    /\ ~firstSample /\ ~droppedStale

\* 100 * (dTotal - dIdle) / dTotal in hundredths, 0 when dTotal <= 0
ExpectedCPU(prev, cur) ==
    LET dTotal == cur.total - prev.total
        dIdle == cur.idle - prev.idle
    IN IF dTotal <= 0 THEN 0 ELSE Round(100 * (dTotal - dIdle), dTotal)

\* C12 as stated: every Collect that is not a first sample and reads the CPU
\* times returns the usage computed from the deltas against the stored values.
C12_CPUUsageFromDeltas ==
    (LaterSample /\ taken.cpuRead) =>
        returned.cpu = ExpectedCPU(entryCache.cpu, taken.cpu)

\* the cache holds a CPU baseline, as each collector tells
HasCPUBaseline(c) ==
    IF collectorKind = "builtin" THEN c.hasCPU
    ELSE c.ts # 0 /\ c.cpu.total > 0

\* C12 amended: every Collect that finds a CPU baseline in the cache and reads
\* the CPU times returns the usage computed from the deltas against it: 0 when
\* the total did not grow, else 100 * (dTotal - dIdle) / dTotal to two decimals.
C12_CPUUsageFromBaseline ==
    (SampleReturned /\ ~returned.err /\ ~resetDuring /\ taken.cpuRead
       /\ HasCPUBaseline(entryCache)) =>
        returned.cpu = ExpectedCPU(entryCache.cpu, taken.cpu)

\* a Collect computed a usage strictly between 0 and 100 against a baseline
C12_Witness ==
    /\ SampleReturned /\ ~returned.err /\ ~resetDuring /\ taken.cpuRead
    /\ HasCPUBaseline(entryCache)
    /\ returned.cpu > 0 /\ returned.cpu < 100 * 100

\* the latest Collect read counters of drive v that did not fall below the
\* stored ones, and reported the drive
DriveSampled(v) ==
    /\ LaterSample /\ taken.diskRead /\ taken.dev[v].io /\ returned.disks[v].incl
    /\ entryCache.disk[v].has
    /\ taken.dev[v].read >= entryCache.disk[v].read
    /\ taken.dev[v].write >= entryCache.disk[v].write

\* the rates of drive v are its counter increases over dt minutes
RatesOver(v, dt) ==
    /\ returned.disks[v].read =
         Round(BytesPerCount * (taken.dev[v].read - entryCache.disk[v].read), Seconds(dt))
    /\ returned.disks[v].write =
         Round(BytesPerCount * (taken.dev[v].write - entryCache.disk[v].write), Seconds(dt))

\* the time between the previous sample and this one, whichever instants of
\* the two calls are taken for it
SampleIntervals ==
    {dt \in 1..MaxElapsed : times.in - times.prevOut <= dt /\ dt <= times.out - times.prevIn}

\* C13: on a sample that follows a sample of the same drive, the read and the
\* write rate of the drive are the increase of its counters divided by the
\* time between the two samples.
C13_RateIsIncreaseOverInterval ==
    \A v \in Drives :
        (DriveSampled(v) /\ times.prevOut # 0 /\ times.prevDev[v]) =>
            \E dt \in SampleIntervals : RatesOver(v, dt)

\* C14: a drive without stored counters gets rate 0 and its counters stored;
\* a drive with stored counters gets a rate computed from the increase.
C14_UnknownZeroKnownComputed ==
    \A v \in Drives :
        /\ (LaterSample /\ taken.diskRead /\ taken.dev[v].io /\ ~entryCache.disk[v].has) =>
              /\ returned.disks[v].read = 0 /\ returned.disks[v].write = 0
              /\ cache.disk[v] = [has |-> TRUE, read |-> taken.dev[v].read,
                                  write |-> taken.dev[v].write]
        /\ DriveSampled(v) => \E dt \in 1..MaxElapsed : RatesOver(v, dt)

\* Executor.ScrapeMetrics: what it hands back for the result m of Collect
ScrapeMetrics(m) ==
    IF m.err THEN [err |-> "collect", metrics |-> <<>>]
    ELSE IF validateMetrics(m) THEN [err |-> "invalid", metrics |-> <<>>]
    ELSE [err |-> "nil", metrics |-> <<m>>]

\* the exporter scrape of the latest Collect failed before parsing
ScrapeFailed == SampleReturned /\ collectorKind = "exporter" /\ returned.err

\* C39: an exporter scrape that fails before parsing completes returns an
\* error and leaves the rate cache as the call found it, apart from the reset
\* of a stale cache on entry.
C39_FailedScrapeKeepsCache ==
    ScrapeFailed =>
        /\ ScrapeMetrics(returned).err = "collect"
        /\ cache = entryCache
        /\ droppedStale => cache = EmptyCache
        /\ taken = NoReadings

\* a scrape failed after a successful sample, whose counters the cache keeps
C39_Witness ==
    /\ ScrapeFailed /\ ~droppedStale
    /\ cache # EmptyCache /\ cache.ts # 0 /\ cache = entryCache
    /\ \E v \in Drives : cache.disk[v].has

\* validation rejected the sample of the latest Collect
SampleRejected == SampleReturned /\ ~returned.err /\ validateMetrics(returned)

\* C40: when validation rejects a sample, ScrapeMetrics returns an error and
\* no metrics, and the cache holds the counters and the timestamp of that
\* sample as the baseline of the next one.
C40_RejectedSampleIsBaseline ==
    (SampleRejected /\ ~resetDuring) =>
        /\ ScrapeMetrics(returned) = [err |-> "invalid", metrics |-> <<>>]
        /\ taken.cpuRead => cache.cpu = taken.cpu
        /\ \A v \in Drives :
              (taken.diskRead /\ taken.dev[v].io) =>
                  cache.disk[v] = [has |-> TRUE, read |-> taken.dev[v].read,
                                   write |-> taken.dev[v].write]
        /\ times.in <= cache.ts /\ cache.ts <= times.out
        /\ collectorKind = "exporter" => cache.ts = times.out

\* a sample with a negative read rate was rejected after its counters replaced
\* those of the accepted sample before it
C40_Witness ==
    /\ SampleRejected /\ ~resetDuring /\ collectorKind = "exporter"
    /\ cache.ts = times.out /\ times.prevOut # 0
    /\ \E v \in Drives :
          /\ returned.disks[v].incl /\ returned.disks[v].read < 0
          /\ entryCache.disk[v].has
          /\ cache.disk[v].read = taken.dev[v].read
          /\ cache.disk[v].read < entryCache.disk[v].read

(***************************************************************************)
(* Command execution (linux, freebsd): strings are sequences of characters *)
(***************************************************************************)
VARIABLES
    allowedCommands,    \* config: commands.allowed_commands
    scriptsDir,         \* config: commands.scripts_directory
    fs,                 \* what os.Stat finds at each path
    execCommand,        \* the command of the latest ExecuteCommand call
    spawned,            \* the command lines that call handed to /bin/bash -c
    execErr,            \* the error of that call; "none": no call yet
    exitCode            \* the exit code of that call

execVars == <<allowedCommands, scriptsDir, fs, execCommand, spawned, execErr, exitCode>>

Slash == "/"
SH == <<".", "s", "h">>

\* unicode.IsSpace, on the characters the model uses
IsSpace(c) == c \in {" ", "\t"}

RECURSIVE FieldsFrom(_, _, _)
FieldsFrom(s, cur, acc) ==
    IF s = <<>> THEN (IF cur = <<>> THEN acc ELSE Append(acc, cur))
    ELSE IF IsSpace(Head(s))
    THEN FieldsFrom(Tail(s), <<>>, IF cur = <<>> THEN acc ELSE Append(acc, cur))
    ELSE FieldsFrom(Tail(s), Append(cur, Head(s)), acc)

\* strings.Fields
Fields(s) == FieldsFrom(s, <<>>, <<>>)

\* strings.Join
RECURSIVE StringsJoin(_, _)
StringsJoin(elems, sep) ==
    IF elems = <<>> THEN <<>>
    ELSE IF Len(elems) = 1 THEN elems[1]
    ELSE elems[1] \o sep \o StringsJoin(Tail(elems), sep)

\* strings.HasPrefix
HasPrefix(s, prefix) == Len(s) >= Len(prefix) /\ SubSeq(s, 1, Len(prefix)) = prefix

\* strings.LastIndexByte, counted from 1; 0: not found
LastIndex(s, c) ==
    LET I == {i \in 1..Len(s) : s[i] = c}
    IN IF I = {} THEN 0 ELSE CHOOSE i \in I : \A j \in I : j <= i

RECURSIVE TrimTrailingSlashes(_)
TrimTrailingSlashes(s) ==
    IF s # <<>> /\ s[Len(s)] = Slash
    THEN TrimTrailingSlashes(SubSeq(s, 1, Len(s) - 1)) ELSE s

\* filepath.Base
Base(path) ==
    IF path = <<>> THEN <<".">>
    ELSE LET q == TrimTrailingSlashes(path)
         IN IF q = <<>> THEN <<Slash>>
            ELSE SubSeq(q, LastIndex(q, Slash) + 1, Len(q))

\* filepath.Ext
Ext(path) ==
    LET dot == LastIndex(path, ".")
    IN IF dot > LastIndex(path, Slash) THEN SubSeq(path, dot, Len(path)) ELSE <<>>

RECURSIVE SplitFrom(_, _, _)
SplitFrom(s, cur, acc) ==
    IF s = <<>> THEN Append(acc, cur)
    ELSE IF Head(s) = Slash THEN SplitFrom(Tail(s), <<>>, Append(acc, cur))
    ELSE SplitFrom(Tail(s), Append(cur, Head(s)), acc)

RECURSIVE CleanFrom(_, _, _)
CleanFrom(elems, acc, rooted) ==
    IF elems = <<>> THEN acc
    ELSE LET e == Head(elems)
         IN IF e = <<>> \/ e = <<".">> THEN CleanFrom(Tail(elems), acc, rooted)
            ELSE IF e = <<".", ".">>
            THEN IF acc # <<>> /\ acc[Len(acc)] # <<".", ".">>
                 THEN CleanFrom(Tail(elems), SubSeq(acc, 1, Len(acc) - 1), rooted)
                 ELSE IF rooted THEN CleanFrom(Tail(elems), acc, rooted)
                 ELSE CleanFrom(Tail(elems), Append(acc, e), rooted)
            ELSE CleanFrom(Tail(elems), Append(acc, e), rooted)

\* filepath.Clean
Clean(path) ==
    IF path = <<>> THEN <<".">>
    ELSE LET rooted == Head(path) = Slash
             body == StringsJoin(CleanFrom(SplitFrom(path, <<>>, <<>>), <<>>, rooted),
                                 <<Slash>>)
         IN IF rooted THEN <<Slash>> \o body
            ELSE IF body = <<>> THEN <<".">> ELSE body

\* filepath.Join of two elements
FilepathJoin(a, b) ==
    IF a = <<>> /\ b = <<>> THEN <<>>
    ELSE IF a = <<>> THEN Clean(b)
    ELSE IF b = <<>> THEN Clean(a)
    ELSE Clean(a \o <<Slash>> \o b)

\* os.Stat: "file", "dir", or "none" when it returns an error
Stat(path) == IF path \in DOMAIN fs THEN fs[path] ELSE "none"

normalizeWhitespace(s) == StringsJoin(Fields(s), <<" ">>)

isScript(command) == Ext(Base(command)) = SH

isScriptAllowed(command, dir) ==
    LET cleanScriptsDir == Clean(dir)
        commandFilename == Base(command)
        cleanScriptPath == Clean(FilepathJoin(cleanScriptsDir, commandFilename))
    IN /\ Ext(commandFilename) = SH
       /\ \/ HasPrefix(cleanScriptPath, cleanScriptsDir \o <<Slash>>)
          \/ cleanScriptPath = cleanScriptsDir
       /\ Stat(cleanScriptPath) = "file"

isCommandAllowed(command, allowed, dir) ==
    \/ \E i \in 1..Len(allowed) :
          normalizeWhitespace(command) = normalizeWhitespace(allowed[i])
    \/ dir # <<>> /\ isScript(command) /\ isScriptAllowed(command, dir)

resolveScriptPath(command, dir) ==
    IF Base(command) = command THEN FilepathJoin(dir, command) ELSE command

\* how the child process of executeBash ends
ProcessResults == {"exit 0", "exit 1", "timeout"}

\* executeBash: exit code and error
executeBash(res) ==
    IF res = "exit 0" THEN [exitCode |-> 0, err |-> "nil"]
    ELSE IF res = "exit 1" THEN [exitCode |-> 1, err |-> "command exited with code 1"]
    ELSE [exitCode |-> -1, err |-> "command execution timeout"]

\* the requests and the configurations of the model
ListedCommand == <<"d", "f", " ", " ", "-", "h">>
ScriptName == <<"x">> \o SH
OtherScriptName == <<"y">> \o SH
ScriptsDirs == {<<>>, <<Slash, "s">>, <<Slash, "s", Slash>>}
ScriptPath == <<Slash, "s", Slash>> \o ScriptName
OtherScriptPath == <<Slash, "s", Slash>> \o OtherScriptName
Commands ==
    {<<>>, <<"r", "m">>,
     <<"d", "f", " ", "-", "h">>, <<" ", "d", "f", "\t", "-", "h", " ">>, <<"d", "f">>,
     ScriptName, OtherScriptName,
     <<Slash, "t", Slash>> \o ScriptName,
     <<".", ".", Slash>> \o ScriptName,
     <<"r", "m", " ">> \o ScriptPath}
AllowedLists == {<<>>, <<ListedCommand>>, <<ListedCommand, OtherScriptName>>}
FileKinds == {"none", "file", "dir"}

InitExec ==
    /\ allowedCommands \in AllowedLists
    /\ scriptsDir \in ScriptsDirs
    /\ fs = [path \in {ScriptPath, OtherScriptPath} |-> "none"]
    /\ execCommand = <<>>
    /\ spawned = <<>>
    /\ execErr = "none"
    /\ exitCode = 0

\* Executor.ExecuteCommand
ExecuteCommand ==
    \E command \in Commands, res \in ProcessResults :
        /\ execCommand' = command
        /\ IF ~isCommandAllowed(command, allowedCommands, scriptsDir)
           THEN /\ spawned' = <<>>
                /\ execErr' = "command not in allowed list or scripts directory"
                /\ exitCode' = -1
           ELSE LET fullCommand == IF scriptsDir # <<>> /\ isScript(command)
                                   THEN resolveScriptPath(command, scriptsDir)
                                   ELSE command
                IN /\ spawned' = <<fullCommand>>
                   /\ execErr' = executeBash(res).err
                   /\ exitCode' = executeBash(res).exitCode
        /\ UNCHANGED <<allowedCommands, scriptsDir, fs>>

\* the administrator installs, replaces or removes what lies at a path
ChangeFile ==
    \E path \in DOMAIN fs, k \in FileKinds :
        /\ fs[path] # k
        /\ fs' = [fs EXCEPT ![path] = k]
        /\ UNCHANGED <<allowedCommands, scriptsDir, execCommand, spawned, execErr, exitCode>>

NextExec == ExecuteCommand \/ ChangeFile

\* the request of the latest call is on the whitelist
Whitelisted ==
    \E i \in 1..Len(allowedCommands) :
        normalizeWhitespace(execCommand) = normalizeWhitespace(allowedCommands[i])

\* the command line is {scripts_directory}/{basename of the request}
RunsInsideScriptsDir(line) ==
    /\ scriptsDir # <<>>
    /\ line = Clean(scriptsDir) \o <<Slash>> \o Base(execCommand)

\* C4: every process that ExecuteCommand spawns runs a whitelisted command or a
\* script as {scripts_directory}/{basename}; every other request gets an error
\* and spawns nothing.
C4_SpawnsOnlyPermitted ==
    execErr # "none" =>
        IF spawned = <<>> THEN execErr # "nil"
        ELSE \A i \in 1..Len(spawned) :
                \/ Whitelisted /\ spawned[i] = execCommand
                \/ RunsInsideScriptsDir(spawned[i])

\* the request names, by its basename alone, a regular script file that lies
\* in the scripts directory
NamesScriptInside(command, dir) ==
    /\ dir # <<>>
    /\ Base(command) = command
    /\ Ext(command) = SH
    /\ HasPrefix(Clean(FilepathJoin(dir, command)), Clean(dir) \o <<Slash>>)
    /\ Stat(Clean(FilepathJoin(dir, command))) = "file"

\* the whitespace-normalized request equals a whitespace-normalized entry
MatchesAllowedEntry(command, allowed) ==
    \E i \in 1..Len(allowed) :
        normalizeWhitespace(command) = normalizeWhitespace(allowed[i])

\* C15: every ExecuteCommand call passes the gate if and only if the request,
\* whitespace-normalized, equals a normalized allowed entry, or is the basename
\* of a regular .sh file inside the scripts directory.
C15_GateAllowsExactly ==
    [][fs' = fs =>
         ((execErr' # "command not in allowed list or scripts directory") <=>
              \/ MatchesAllowedEntry(execCommand', allowedCommands)
              \/ NamesScriptInside(execCommand', scriptsDir))]_execVars

(***************************************************************************)
(* Log tail reader: the path gate isPathAllowed and tailFile (unix build;  *)
(* paths and file contents are sequences of characters and bytes)          *)
(***************************************************************************)
MaxFileLen == 5

\* tailFile reads files below this size whole: 1024*1024 in the code, scaled
\* down to the file sizes of the model
smallFileLimit == 4
\* the block size of readLastNLines: 4096 in the code, scaled down alike
bufferSize == 2
\* FetchLogLines: the largest number of lines a request can ask for
maxLogLines == 10000

VARIABLES
    logFiles,           \* what lies at each path of the file system
    logContent,         \* the bytes of the regular files
    allowedLogPaths,    \* config: commands.allowed_log_paths
    logPath,            \* the path of the latest FetchLogLines call
    logN,               \* the line count of that call
    logOpened,          \* the path that call handed to os.Open; <<>>: none
    logErr,             \* the error of that call; "none": no call yet
    logLines            \* the lines that call returned

logVars == <<logFiles, logContent, allowedLogPaths, logPath, logN, logOpened, logErr,
             logLines>>

NL == "\n"
CR == "\r"

UpperCaseLetters == <<"A", "B", "C", "D", "E", "F", "G", "H", "I", "J", "K", "L", "M",
                      "N", "O", "P", "Q", "R", "S", "T", "U", "V", "W", "X", "Y", "Z">>
LowerCaseLetters == <<"a", "b", "c", "d", "e", "f", "g", "h", "i", "j", "k", "l", "m",
                      "n", "o", "p", "q", "r", "s", "t", "u", "v", "w", "x", "y", "z">>

\* unicode.ToLower on ASCII
ToLowerChar(c) ==
    IF \E i \in 1..Len(UpperCaseLetters) : UpperCaseLetters[i] = c
    THEN LowerCaseLetters[CHOOSE i \in 1..Len(UpperCaseLetters) : UpperCaseLetters[i] = c]
    ELSE c

\* strings.ToLower
ToLower(s) == [i \in 1..Len(s) |-> ToLowerChar(s[i])]

\* strings.Contains
Contains(s, substr) ==
    \E i \in 1..(Len(s) - Len(substr) + 1) : SubSeq(s, i, i + Len(substr) - 1) = substr

\* isPathAllowed: suspiciousPatterns
suspiciousPatterns ==
    <<<<".", ".">>,
      <<"s", "y", "s", "t", "e", "m", "3", "2">>,
      <<"\\", "w", "i", "n", "d", "o", "w", "s", "\\">>,
      <<"\\", "p", "r", "o", "g", "r", "a", "m", " ", "f", "i", "l", "e", "s", "\\">>,
      <<"s", "a", "m">>,
      <<".", "e", "x", "e">>,
      <<".", "d", "l", "l">>,
      <<".", "s", "y", "s">>>>

\* filepath.IsAbs
IsAbs(path) == HasPrefix(path, <<Slash>>)

\* filepath.Match for patterns of literal characters and "*": a star matches
\* any run of characters other than the separator
RECURSIVE Match(_, _)
Match(pattern, name) ==
    IF pattern = <<>> THEN name = <<>>
    ELSE IF Head(pattern) = "*"
    THEN \/ Match(Tail(pattern), name)
         \/ name # <<>> /\ Head(name) # Slash /\ Match(pattern, Tail(name))
    ELSE name # <<>> /\ Head(name) = Head(pattern) /\ Match(Tail(pattern), Tail(name))

\* filepath.Glob: the existing paths the pattern expands to
Glob(pattern) == {p \in DOMAIN logFiles : logFiles[p] # "none" /\ Match(pattern, p)}

\* strings.Split(s, "*")[0]
BeforeStar(s) ==
    LET I == {i \in 1..Len(s) : s[i] = "*"}
    IN IF I = {} THEN s ELSE SubSeq(s, 1, (CHOOSE i \in I : \A j \in I : i <= j) - 1)

\* isPathAllowed without the check that the cleaned path is absolute
isPathAllowedRelative(requestedPath, allowedPatterns) ==
    LET cleanPath == Clean(requestedPath)
        lowerPath == ToLower(cleanPath)
    IN /\ \A k \in 1..Len(suspiciousPatterns) : ~Contains(lowerPath, suspiciousPatterns[k])
       /\ \E k \in 1..Len(allowedPatterns) :
             LET cleanPattern == Clean(allowedPatterns[k])
             IN \E match \in Glob(cleanPattern) :
                   /\ cleanPath = Clean(match)
                   /\ HasPrefix(cleanPath, Clean(BeforeStar(cleanPattern)))

\* isPathAllowed
isPathAllowed(requestedPath, allowedPatterns) ==
    LET cleanPath == Clean(requestedPath)
        lowerPath == ToLower(cleanPath)
    IN /\ \A k \in 1..Len(suspiciousPatterns) : ~Contains(lowerPath, suspiciousPatterns[k])
       /\ IsAbs(cleanPath)
       /\ \E k \in 1..Len(allowedPatterns) :
             LET cleanPattern == Clean(allowedPatterns[k])
             IN \E match \in Glob(cleanPattern) :
                   /\ cleanPath = Clean(match)
                   /\ HasPrefix(cleanPath, Clean(BeforeStar(cleanPattern)))

\* bufio.ScanLines: dropCR
dropCR(data) ==
    IF data # <<>> /\ data[Len(data)] = CR THEN SubSeq(data, 1, Len(data) - 1) ELSE data

\* bufio.Scanner with bufio.ScanLines: the tokens of the data
RECURSIVE ScanLines(_)
ScanLines(data) ==
    IF data = <<>> THEN <<>>
    ELSE LET I == {i \in 1..Len(data) : data[i] = NL}
         IN IF I = {} THEN <<dropCR(data)>>
            ELSE LET i == CHOOSE k \in I : \A j \in I : k <= j
                 IN <<dropCR(SubSeq(data, 1, i - 1))>> \o ScanLines(SubSeq(data, i + 1, Len(data)))

\* lines[len(lines)-n:], all of them when there are no more than n
LastN(lines, n) ==
    IF Len(lines) <= n THEN lines ELSE SubSeq(lines, Len(lines) - n + 1, Len(lines))

\* readAllLines
readAllLines(content, n) == LastN(ScanLines(content), n)

\* reverseString
reverseString(s) == [i \in 1..Len(s) |-> s[Len(s) + 1 - i]]

\* readLastNLines: the inner loop over one block, from its last byte to its
\* first; currentLine collects the bytes in the order they are met
RECURSIVE ProcessBuffer(_, _, _, _, _)
ProcessBuffer(buffer, i, lines, currentLine, n) ==
    IF i = 0 THEN [lines |-> lines, currentLine |-> currentLine]
    ELSE IF buffer[i] = NL
    THEN LET added == IF currentLine # <<>> THEN <<currentLine>> \o lines ELSE lines
         IN IF Len(added) >= n THEN [lines |-> added, currentLine |-> <<>>]
            ELSE ProcessBuffer(buffer, i - 1, added, <<>>, n)
    ELSE IF buffer[i] # CR
    THEN ProcessBuffer(buffer, i - 1, lines, currentLine \o <<buffer[i]>>, n)
    ELSE ProcessBuffer(buffer, i - 1, lines, currentLine, n)

\* readLastNLines: the outer loop over the blocks, from the end of the file
RECURSIVE ReadBlocks(_, _, _, _, _)
ReadBlocks(content, pos, lines, currentLine, n) ==
    IF ~(Len(lines) < n /\ pos > 0) THEN [lines |-> lines, currentLine |-> currentLine]
    ELSE LET readSize == IF pos < bufferSize THEN pos ELSE bufferSize
             newPos   == pos - readSize
             buffer   == SubSeq(content, newPos + 1, newPos + readSize)
             r        == ProcessBuffer(buffer, readSize, lines, currentLine, n)
         IN ReadBlocks(content, newPos, r.lines, r.currentLine, n)

\* readLastNLines
readLastNLines(content, fileSize, n) ==
    LET r     == ReadBlocks(content, fileSize, <<>>, <<>>, n)
        lines == IF r.currentLine # <<>>
                 THEN <<reverseString(r.currentLine)>> \o r.lines ELSE r.lines
    IN [i \in 1..Len(lines) |->
          IF i = 1 /\ r.currentLine # <<>> THEN lines[i] ELSE reverseString(lines[i])]

\* tailFile, once the file is open
tailFile(content, n) ==
    IF Len(content) < smallFileLimit THEN readAllLines(content, n)
    ELSE readLastNLines(content, Len(content), n)

\* the file system of the model: one log file whose content varies, files
\* beside it, and a directory /l/x that exists or not
MainLog == <<"/", "l", "/", "a", ".", "l", "o", "g">>
OtherFiles ==
    {<<"/", "l", "/", "S", "A", "M", ".", "l", "o", "g">>,
     <<"/", "l", "/", "a", ".", ".", "l", "o", "g">>,
     <<"/", "l", "/", "a", ".", "e", "x", "e">>,
     <<"/", "m", "/", "a", ".", "l", "o", "g">>,
     <<"l", "/", "a", ".", "l", "o", "g">>}
SubDir == <<"/", "l", "/", "x">>
FixedDirs == {<<"/">>, <<"/", "l">>, <<"/", "m">>, <<"l">>}
LogPaths == {MainLog, SubDir} \cup OtherFiles \cup FixedDirs

LogFileSystems ==
    {[p \in LogPaths |->
         IF p = MainLog THEN main
         ELSE IF p = SubDir THEN sub
         ELSE IF p \in OtherFiles THEN "file" ELSE "dir"] :
        main \in {"none", "file"}, sub \in {"none", "dir"}}

\* the requested paths of the model
RequestedLogPaths ==
    {<<>>,
     <<"/", "l", "/", "a", ".", "l", "o", "g">>,
     <<"/", "l", "/", "x", "/", ".", ".", "/", "a", ".", "l", "o", "g">>,
     <<"/", "l", "/", ".", "/", "a", ".", "l", "o", "g">>,
     <<"/", "l", "/", "a", ".", ".", "l", "o", "g">>,
     <<"/", "l", "/", "S", "A", "M", ".", "l", "o", "g">>,
     <<"/", "l", "/", "a", ".", "e", "x", "e">>,
     <<"/", "l", "/", "s", "a", "m", "/", ".", ".", "/", "a", ".", "l", "o", "g">>,
     <<"/", "m", "/", "a", ".", "l", "o", "g">>,
     <<"l", "/", "a", ".", "l", "o", "g">>,
     <<"/", "l", "/", "b", ".", "l", "o", "g">>}

\* the pattern lists of the model
AllowedLogPathLists ==
    {<<>>,
     <<<<"/", "l", "/", "*", ".", "l", "o", "g">>>>,
     <<<<"/", "l", "/", "a", ".", "l", "o", "g">>>>,
     <<<<"l", "/", "*", ".", "l", "o", "g">>>>,
     <<<<"/", "m", "/", "*">>, <<"/", "l", "/", "*">>>>}

LogBytes == {"a", "b", NL, CR}
LogLineCounts == {0, 1, 2, 3, maxLogLines, maxLogLines + 1}

RECURSIVE SeqsUpTo(_, _)
SeqsUpTo(S, k) ==
    IF k = 0 THEN {<<>>}
    ELSE LET shorter == SeqsUpTo(S, k - 1)
         IN shorter \cup {Append(s, c) : s \in {t \in shorter : Len(t) = k - 1}, c \in S}

\* every ".." element of the path is reached through an existing directory
ParentsExist(path) ==
    \A i \in 1..Len(path) :
        (/\ path[i] = Slash
         /\ SubSeq(path, i + 1, i + 2) = <<".", ".">>
         /\ (i + 2 = Len(path) \/ (i + 3 <= Len(path) /\ path[i + 3] = Slash)))
        => LET dir == Clean(SubSeq(path, 1, i))
           IN dir \in DOMAIN logFiles /\ logFiles[dir] = "dir"

\* os.Open as the kernel resolves the path
OpenLog(path) ==
    /\ ParentsExist(path)
    /\ Clean(path) \in DOMAIN logFiles
    /\ logFiles[Clean(path)] = "file"

\* the bytes of a regular file
ContentOf(path) == IF Clean(path) = MainLog THEN logContent ELSE <<>>

InitLogState ==
    /\ logPath = <<>>
    /\ logN = 0
    /\ logOpened = <<>>
    /\ logErr = "none"
    /\ logLines = <<>>

\* the path gate under every pattern list, over a log file of two lines
InitLogs ==
    /\ logFiles \in LogFileSystems
    /\ allowedLogPaths \in AllowedLogPathLists
    /\ logContent = <<"a", NL, "b", NL>>
    /\ InitLogState

\* the tail under one pattern list, over every content of the log file
InitTail ==
    /\ logFiles \in {f \in LogFileSystems : f[MainLog] = "file" /\ f[SubDir] = "none"}
    /\ allowedLogPaths = <<<<"/", "l", "/", "*", ".", "l", "o", "g">>>>
    /\ logContent \in SeqsUpTo(LogBytes, MaxFileLen)
    /\ InitLogState

\* Executor.FetchLogLines
FetchLogLines(path, lines) ==
    /\ logPath' = path
    /\ logN' = lines
    /\ IF ~isPathAllowed(path, allowedLogPaths)
       THEN /\ logErr' = "log path not in allowed list"
            /\ logOpened' = <<>>
            /\ logLines' = <<>>
       ELSE IF lines <= 0
       THEN /\ logErr' = "lines must be greater than 0"
            /\ logOpened' = <<>>
            /\ logLines' = <<>>
       ELSE IF lines > maxLogLines
       THEN /\ logErr' = "lines cannot exceed 10000"
            /\ logOpened' = <<>>
            /\ logLines' = <<>>
       ELSE /\ logOpened' = path
            /\ IF OpenLog(path)
               THEN /\ logErr' = "nil"
                    /\ logLines' = tailFile(ContentOf(path), lines)
               ELSE /\ logErr' = "failed to open file"
                    /\ logLines' = <<>>
    /\ UNCHANGED <<logFiles, logContent, allowedLogPaths>>

NextLogs == \E path \in RequestedLogPaths, lines \in LogLineCounts : FetchLogLines(path, lines)

\* requests for the log file alone
NextTail == \E lines \in LogLineCounts : FetchLogLines(MainLog, lines)

LogCallMade == logErr # "none"
LogDenied == logErr = "log path not in allowed list"

\* C16: every FetchLogLines call whose requested path contains ".." or, in any
\* letter case, a deny-list substring is refused by the path gate under every
\* pattern list, and hands no path to os.Open.
C16_SuspiciousPathsNeverOpened ==
    (LogCallMade
     /\ \E k \in 1..Len(suspiciousPatterns) : Contains(ToLower(logPath), suspiciousPatterns[k]))
    => (LogDenied /\ logOpened = <<>>)

\* C17: a FetchLogLines call passes the path gate only when the cleaned
\* requested path is absolute and is among the paths one of the allowed
\* patterns expands to; under an empty pattern list every call is refused.
C17_AllowedOnlyAbsoluteGlobMatch ==
    (LogCallMade /\ ~LogDenied)
    => /\ IsAbs(Clean(logPath))
       /\ allowedLogPaths # <<>>
       /\ \E k \in 1..Len(allowedLogPaths) : Clean(logPath) \in Glob(allowedLogPaths[k])

C17_Witness ==
    /\ logErr = "nil"
    /\ logPath # Clean(logPath)
    /\ logOpened = logPath
    /\ Len(logLines) = 2

\* the newline-delimited lines of a file
LinesOf(content) == ScanLines(content)

\* C18: a FetchLogLines call on an allowed file with 1 <= n <= 10000 returns
\* the final min(n, L) newline-delimited lines of the file in file order, the
\* file being below the whole-read size or not.
C18_TailIsFinalLines ==
    logErr = "nil" => logLines = LastN(LinesOf(ContentOf(logPath)), logN)

(***************************************************************************)
(* executeBash in time: the goroutine that runs the child, the select on   *)
(* its result and on the timer, and the child itself.  Time is counted in  *)
(* ticks since the call; a tick does not pass while the select can proceed.*)
(***************************************************************************)
MaxWait == 3

VARIABLES
    bashTimeout,        \* the timeout executeBash was called with
    bashClock,          \* ticks since the call
    childState,         \* "not started", "running", "exited", "killed", "start failed"
    childCode,          \* the exit code of the child, once it exited
    pipesHeld,          \* a descendant of the child holds its output pipes open
    doneCh,             \* the buffered channel: "empty" or the result of cmd.Run
    bashPhase,          \* "select": executeBash waits; "returned"
    bashResult,         \* what executeBash returned
    returnedAt,         \* the tick at which it returned
    childAtReturn       \* the state of the child when it returned

bashVars == <<bashTimeout, bashClock, childState, childCode, pipesHeld, doneCh, bashPhase,
              bashResult, returnedAt, childAtReturn>>

BashTimeouts == 1..(MaxWait - 1)
ExitCodes == {0, 1}
NoResult == [exitCode |-> 0, err |-> "none"]

InitBash ==
    /\ bashTimeout \in BashTimeouts
    /\ bashClock = 0
    /\ childState = "not started"
    /\ childCode = 0
    /\ pipesHeld = FALSE
    /\ doneCh = "empty"
    /\ bashPhase = "select"
    /\ bashResult = NoResult
    /\ returnedAt = 0
    /\ childAtReturn = "not started"

\* cmd.Run in the goroutine: cmd.Start spawns /bin/bash, or fails
BashStart ==
    /\ childState = "not started"
    /\ \/ /\ childState' = "running"
          /\ pipesHeld' \in BOOLEAN
          /\ doneCh' = doneCh
       \/ /\ childState' = "start failed"
          /\ pipesHeld' = FALSE
          /\ doneCh' = "start error"
    /\ UNCHANGED <<bashTimeout, bashClock, childCode, bashPhase, bashResult, returnedAt,
                   childAtReturn>>

\* the child exits by itself
ChildExits ==
    /\ childState = "running"
    /\ childState' = "exited"
    /\ childCode' \in ExitCodes
    /\ UNCHANGED <<bashTimeout, bashClock, pipesHeld, doneCh, bashPhase, bashResult,
                   returnedAt, childAtReturn>>

\* the descendant that holds the output pipes exits
PipesClose ==
    /\ pipesHeld
    /\ childState \in {"exited", "killed"}
    /\ pipesHeld' = FALSE
    /\ UNCHANGED <<bashTimeout, bashClock, childState, childCode, doneCh, bashPhase,
                   bashResult, returnedAt, childAtReturn>>

\* cmd.Run returns once the child is gone and its output is copied, and the
\* goroutine sends the result
RunReturns ==
    /\ childState \in {"exited", "killed"}
    /\ ~pipesHeld
    /\ doneCh = "empty"
    /\ doneCh' = IF childState = "exited" /\ childCode = 0 THEN "nil" ELSE "exit error"
    /\ UNCHANGED <<bashTimeout, bashClock, childState, childCode, pipesHeld, bashPhase,
                   bashResult, returnedAt, childAtReturn>>

\* what executeBash returns on a result of cmd.Run
ResultOfRun(result, state, code) ==
    IF result = "nil" THEN [exitCode |-> 0, err |-> "nil"]
    ELSE IF result = "exit error"
    THEN [exitCode |-> IF state = "killed" THEN -1 ELSE code,
          err |-> "command exited with code"]
    ELSE [exitCode |-> -1, err |-> "failed to execute command"]

\* select: case err := <-done
SelectDone ==
    /\ bashPhase = "select"
    /\ doneCh # "empty"
    /\ bashResult' = ResultOfRun(doneCh, childState, childCode)
    /\ doneCh' = "empty"
    /\ bashPhase' = "returned"
    /\ returnedAt' = bashClock
    /\ childAtReturn' = childState
    /\ UNCHANGED <<bashTimeout, bashClock, childState, childCode, pipesHeld>>

\* the timeout case, were it to wait for cmd.Run after the kill
SelectTimeoutThenWait ==
    /\ bashPhase = "select"
    /\ bashClock >= bashTimeout
    /\ doneCh # "empty"
    /\ childState' = childState
    /\ bashResult' = [exitCode |-> -1, err |-> "command execution timeout"]
    /\ bashPhase' = "returned"
    /\ returnedAt' = bashClock
    /\ childAtReturn' = childState
    /\ UNCHANGED <<bashTimeout, bashClock, childCode, pipesHeld, doneCh>>

\* select: case <-time.After(timeout); cmd.Process is nil until cmd.Start
\* has set it
SelectTimeout ==
    /\ bashPhase = "select"
    /\ bashClock >= bashTimeout
    /\ childState' = IF childState = "running" THEN "killed" ELSE childState
    /\ bashResult' = [exitCode |-> -1, err |-> "command execution timeout"]
    /\ bashPhase' = "returned"
    /\ returnedAt' = bashClock
    /\ childAtReturn' = childState
    /\ UNCHANGED <<bashTimeout, bashClock, childCode, pipesHeld, doneCh>>

\* a tick passes, unless the select can proceed
BashTick ==
    /\ bashClock < MaxWait
    /\ ~ENABLED (SelectDone \/ SelectTimeout)
    /\ bashClock' = bashClock + 1
    /\ UNCHANGED <<bashTimeout, childState, childCode, pipesHeld, doneCh, bashPhase,
                   bashResult, returnedAt, childAtReturn>>

NextBash ==
    \/ BashStart \/ ChildExits \/ PipesClose \/ RunReturns \/ SelectDone
    \/ SelectTimeout \/ BashTick

\* C20: executeBash has returned by the time the timeout has passed, whatever
\* the child does; and when it returns with the timeout elapsed and the child
\* not yet exited, it returns exit code -1 and the error "command execution
\* timeout".
C20_TimeoutEndsTheWait ==
    /\ bashClock > bashTimeout => (bashPhase = "returned" /\ returnedAt <= bashTimeout)
    /\ (bashPhase = "returned" /\ returnedAt >= bashTimeout
        /\ childAtReturn \in {"not started", "running"})
       => bashResult = [exitCode |-> -1, err |-> "command execution timeout"]

C20_Witness ==
    /\ bashPhase = "returned"
    /\ returnedAt = bashTimeout
    /\ childAtReturn = "running"
    /\ childState = "killed"
    /\ pipesHeld
    /\ bashClock > bashTimeout

\* C22: once executeBash has returned the timeout error, the shell is gone and
\* so is every process the shell started.
C22_TimeoutKillsProcessGroup ==
    (bashPhase = "returned" /\ bashResult.err = "command execution timeout")
    => (childState \notin {"not started", "running"} /\ ~pipesHeld)

(***************************************************************************)
(* OS service adapter: ControlService of each platform build               *)
(***************************************************************************)
VARIABLES
    platform,           \* the build: "windows", "linux", "freebsd" or "other"
    allowedServices,    \* config: commands.allowed_services
    osService,          \* state of every service the OS knows
    svcName,            \* arguments of the latest ControlService call
    svcAction,
    svcErr,             \* its error; "none": no call yet, "nil": success
    svcContacts         \* what that call did with the OS service manager, in order

serviceVars == <<platform, allowedServices, osService, svcName, svcAction, svcErr,
                 svcContacts>>

Platforms == {"windows", "linux", "freebsd", "other"}
ValidActions == {"start", "stop", "restart"}
ServiceActions == ValidActions \cup {"destroy"}
InstalledNames == {"MyAppService", "sshd"}
ServiceNames == InstalledNames \cup {""}
AllowedServiceLists == {<<>>, <<"MyAppService">>, <<"MyAppService", "sshd">>}
OSServiceStates == {"Running", "Stopped", "NotInstalled"}
\* what the service manager does with the requests of one call
OSOutcomes == {"ok", "connect fails", "operation fails", "stop times out", "query fails"}

isServiceAllowed(name, allowed) == \E i \in 1..Len(allowed) : name = allowed[i]

\* the state a service is in after a successful action
StateAfter(action) == IF action = "stop" THEN "Stopped" ELSE "Running"

\* result of one call: error, contacts with the service manager, new service state
SvcResult(err, contacts, state) == [err |-> err, contacts |-> contacts, state |-> state]

\* service_windows.go: the action branch, after the service handle is open
WindowsAction(action, cur, os, done) ==
    IF action = "start"
    THEN IF os = "operation fails"
         THEN SvcResult("failed to start service", done \o <<"Start">>, cur)
         ELSE SvcResult("nil", done \o <<"Start">>, "Running")
    ELSE IF action \in {"stop", "restart"}
    THEN IF os = "operation fails"
         THEN SvcResult("failed to stop service", done \o <<"Control">>, cur)
         ELSE IF os = "stop times out"
         THEN SvcResult("timeout waiting for service to stop",
                        done \o <<"Control", "Query">>, cur)
         ELSE IF os = "query fails"
         THEN SvcResult("failed to query service status",
                        done \o <<"Control", "Query">>, cur)
         ELSE IF action = "stop"
         THEN SvcResult("nil", done \o <<"Control">>, "Stopped")
         ELSE SvcResult("nil", done \o <<"Control", "Start">>, "Running")
    ELSE SvcResult("invalid action", done, cur)

\* service_windows.go: ControlService
ControlServiceWindows(name, action, allowed, cur, os) ==
    IF ~isServiceAllowed(name, allowed)
    THEN SvcResult("service not in allowed list", <<>>, cur)
    ELSE IF os = "connect fails"
    THEN SvcResult("failed to connect to service manager", <<"Connect">>, cur)
    ELSE IF cur = "NotInstalled"
    THEN SvcResult("failed to open service", <<"Connect", "OpenService">>, cur)
    ELSE WindowsAction(action, cur, os, <<"Connect", "OpenService">>)

\* service_linux.go: ControlService
ControlServiceLinux(name, action, allowed, cur, os) ==
    IF ~isServiceAllowed(name, allowed)
    THEN SvcResult("service not in allowed list", <<>>, cur)
    ELSE IF action \notin ValidActions
    THEN SvcResult("invalid action", <<>>, cur)
    ELSE IF os = "operation fails" \/ cur = "NotInstalled"
    THEN SvcResult("systemctl failed", <<"systemctl " \o action>>, cur)
    ELSE SvcResult("nil", <<"systemctl " \o action, "systemctl show">>, StateAfter(action))

\* service_freebsd.go: ControlService
ControlServiceFreeBSD(name, action, allowed, cur, os) ==
    IF ~isServiceAllowed(name, allowed)
    THEN SvcResult("service not in allowed list", <<>>, cur)
    ELSE IF action \notin ValidActions
    THEN SvcResult("invalid action", <<>>, cur)
    ELSE IF os = "operation fails" \/ cur = "NotInstalled"
    THEN SvcResult("service command failed", <<"service " \o action>>, cur)
    ELSE SvcResult("nil", <<"service " \o action>>, StateAfter(action))

\* the stub of every other platform
ControlServiceOther(name, action, allowed, cur, os) ==
    SvcResult("service control not supported on this platform", <<>>, cur)

ControlServiceOn(p, name, action, allowed, cur, os) ==
    IF p = "windows" THEN ControlServiceWindows(name, action, allowed, cur, os)
    ELSE IF p = "linux" THEN ControlServiceLinux(name, action, allowed, cur, os)
    ELSE IF p = "freebsd" THEN ControlServiceFreeBSD(name, action, allowed, cur, os)
    ELSE ControlServiceOther(name, action, allowed, cur, os)

\* the state the OS has for a name; the empty name is no service
OSStateOf(name) == IF name \in DOMAIN osService THEN osService[name] ELSE "NotInstalled"

InitService ==
    /\ platform \in Platforms
    /\ allowedServices \in AllowedServiceLists
    /\ osService = [n \in InstalledNames |-> "Stopped"]
    /\ svcName = ""
    /\ svcAction = ""
    /\ svcErr = "none"
    /\ svcContacts = <<>>

\* Executor.ControlService(name, action, allowedServices)
ControlService ==
    \E name \in ServiceNames, action \in ServiceActions, os \in OSOutcomes :
       \E r \in {ControlServiceOn(platform, name, action, allowedServices,
                                  OSStateOf(name), os)} :
          /\ svcName' = name
          /\ svcAction' = action
          /\ svcErr' = r.err
          /\ svcContacts' = r.contacts
          /\ osService' = IF name \in DOMAIN osService
                          THEN [osService EXCEPT ![name] = r.state] ELSE osService
          /\ UNCHANGED <<platform, allowedServices>>

\* a service is installed, removed, started or stopped behind the agent's back
ServiceChanges ==
    \E n \in InstalledNames, st \in OSServiceStates :
        /\ osService[n] # st
        /\ osService' = [osService EXCEPT ![n] = st]
        /\ UNCHANGED <<platform, allowedServices, svcName, svcAction, svcErr, svcContacts>>

NextService == ControlService \/ ServiceChanges

\* C5: a ControlService call whose name is not allowed or whose action is not
\* start, stop or restart returns an error without any contact with the OS
\* service manager, on every platform.
C5_RejectsBeforeContact ==
    (svcErr # "none" /\ (~isServiceAllowed(svcName, allowedServices)
                         \/ svcAction \notin ValidActions))
        => (svcErr # "nil" /\ svcContacts = <<>>)

(***************************************************************************)
(* isServiceAllowed over names and lists that differ in case, length,      *)
(* blanks and path, the empty name and the empty entry included            *)
(***************************************************************************)
VARIABLES
    gateName,           \* the name of the last isServiceAllowed call
    gateAllowed,        \* its list
    gateResult          \* "none" before the call, then "true" or "false"

gateVars == <<gateName, gateAllowed, gateResult>>

GateNames == {"", "sshd", "SSHD", "ssh", "sshd ", " sshd", "/etc/init.d/sshd", "nginx"}
GateLists == {<<>>, <<"sshd">>, <<"nginx", "sshd">>, <<"SSHD">>, <<"sshd ">>,
              <<"">>, <<"", "sshd">>}

InitGate ==
    /\ gateName \in GateNames
    /\ gateAllowed \in GateLists
    /\ gateResult = "none"

CheckService ==
    /\ gateResult = "none"
    /\ gateResult' = IF isServiceAllowed(gateName, gateAllowed) THEN "true" ELSE "false"
    /\ UNCHANGED <<gateName, gateAllowed>>

NextGate == CheckService

\* C31: isServiceAllowed returns true exactly when the name equals an entry of
\* the list, and never for the empty name.
C31_ExactMatchNeverEmpty ==
    gateResult # "none" =>
        (gateResult = "true" <=>
            /\ gateName # ""
            /\ \E i \in 1..Len(gateAllowed) : gateAllowed[i] = gateName)

(***************************************************************************)
(* GetServiceStatuses: the status reported for each service, from what the *)
(* service manager of the platform answers                                 *)
(***************************************************************************)
VARIABLES
    stPlatform,         \* the build
    stServices,         \* the services asked for
    stReadings,         \* per service, what the service manager answered
    stStatuses,         \* the ServiceStatus.Status values returned, in order
    stErr               \* "none" before the call, then the error returned or "nil"

statusVars == <<stPlatform, stServices, stReadings, stStatuses, stErr>>

ServiceStatusValues ==
    {"Running", "Stopped", "Starting", "Stopping", "Error", "Unknown", "NotInstalled"}

NativeReading(call, load, state) == [call |-> call, load |-> load, state |-> state]

\* systemctl show: how the command ends, LoadState, ActiveState
LinuxReadings ==
    {NativeReading(c, l, s) :
        c \in {"ok", "fails: not loaded", "fails"},
        l \in {"loaded", "not-found"},
        s \in {"active", "inactive", "activating", "deactivating", "failed",
               "reloading", "maintenance", ""}}

\* OpenService and Query, and the svc.State of the answer
WindowsReadings ==
    {NativeReading(c, "", s) :
        c \in {"ok", "open fails", "query fails"},
        s \in {"Stopped", "StartPending", "StopPending", "Running",
               "ContinuePending", "PausePending", "Paused", "0"}}

\* service <name> status: how the command ends and what it prints
FreeBSDReadings ==
    {NativeReading(c, "", s) :
        c \in {"exit 0", "exit 1", "not started"},
        s \in {"is running", "is not running", "does not exist", "usage"}}

ReadingsOn(p) ==
    CASE p = "linux" -> LinuxReadings
      [] p = "windows" -> WindowsReadings
      [] p = "freebsd" -> FreeBSDReadings
      [] OTHER -> {NativeReading("", "", "")}

\* mapSystemdState handing through the states it does not know
mapSystemdStateAsIs(activeState) ==
    CASE activeState = "active" -> "Running"
      [] activeState = "inactive" -> "Stopped"
      [] activeState = "activating" -> "Starting"
      [] activeState = "deactivating" -> "Stopping"
      [] activeState = "failed" -> "Error"
      [] OTHER -> activeState

mapSystemdState(activeState) ==
    CASE activeState = "active" -> "Running"
      [] activeState = "inactive" -> "Stopped"
      [] activeState = "activating" -> "Starting"
      [] activeState = "deactivating" -> "Stopping"
      [] activeState = "failed" -> "Error"
      [] OTHER -> "Unknown"

mapWindowsServiceState(state) ==
    CASE state = "Running" -> "Running"
      [] state = "Stopped" -> "Stopped"
      [] state = "StartPending" -> "Starting"
      [] state = "StopPending" -> "Stopping"
      [] state \in {"Paused", "PausePending", "ContinuePending"} -> "Stopped"
      [] OTHER -> "Unknown"

\* getServiceStatus of each build: the status, or "error" for (nil, err)
getServiceStatusLinux(rd) ==
    IF rd.call = "fails: not loaded" THEN "NotInstalled"
    ELSE IF rd.call = "fails" THEN "error"
    ELSE IF rd.load = "not-found" THEN "NotInstalled"
    ELSE mapSystemdState(rd.state)

getServiceStatusWindows(rd) ==
    IF rd.call = "open fails" THEN "NotInstalled"
    ELSE IF rd.call = "query fails" THEN "error"
    ELSE mapWindowsServiceState(rd.state)

getServiceStatusFreeBSD(rd) ==
    IF rd.call = "not started" THEN "error"
    ELSE IF rd.call = "exit 0" THEN "Running"
    ELSE IF rd.state = "is not running" THEN "Stopped"
    ELSE IF rd.state = "does not exist" THEN "NotInstalled"
    ELSE "Unknown"

getServiceStatus(p, rd) ==
    CASE p = "linux" -> getServiceStatusLinux(rd)
      [] p = "windows" -> getServiceStatusWindows(rd)
      [] p = "freebsd" -> getServiceStatusFreeBSD(rd)

\* the loop of GetServiceStatuses: a failed query is reported as Error
StatusesOf(p, rds) ==
    [i \in 1..Len(rds) |->
        IF getServiceStatus(p, rds[i]) = "error" THEN "Error"
        ELSE getServiceStatus(p, rds[i])]

StatusServiceLists == {<<>>, <<"sshd">>, <<"sshd", "nginx">>}

GetServiceStatuses(services) ==
    /\ stErr = "none"
    /\ stServices' = services
    /\ UNCHANGED stPlatform
    /\ IF stPlatform = "other"
       THEN /\ stErr' = "service status not supported on this platform"
            /\ UNCHANGED <<stReadings, stStatuses>>
       ELSE \/ /\ stPlatform = "windows"
               /\ stErr' = "failed to connect to service manager"
               /\ UNCHANGED <<stReadings, stStatuses>>
            \/ \E rds \in [1..Len(services) -> ReadingsOn(stPlatform)] :
                 /\ stReadings' = rds
                 /\ stStatuses' = StatusesOf(stPlatform, rds)
                 /\ stErr' = "nil"

InitStatus ==
    /\ stPlatform \in Platforms
    /\ stServices = <<>>
    /\ stReadings = <<>>
    /\ stStatuses = <<>>
    /\ stErr = "none"

NextStatus == \E services \in StatusServiceLists : GetServiceStatuses(services)

\* C32: every status GetServiceStatuses returns is one of Running, Stopped,
\* Starting, Stopping, Error, Unknown, NotInstalled, and there is one status
\* for each service asked for.
C32_StatusInFixedSet ==
    stErr = "nil" =>
        /\ Len(stStatuses) = Len(stServices)
        /\ \A i \in 1..Len(stStatuses) : stStatuses[i] \in ServiceStatusValues

\* a systemd state the mapping does not name next to a failed status query
C32_Witness ==
    /\ stErr = "nil" /\ stPlatform = "linux" /\ Len(stStatuses) = 2
    /\ stReadings[1] = NativeReading("ok", "loaded", "reloading")
    /\ stStatuses[1] = "Unknown"
    /\ stReadings[2].call = "fails"
    /\ stStatuses[2] = "Error"

(***************************************************************************)
(* ControlService on Windows, stop and restart: the stop control, the      *)
(* polling loop and the start that follows it, step by step. Time is       *)
(* counted in polling intervals of 300 ms.                                 *)
(***************************************************************************)
\* 30 s in polling intervals, scaled down
stopDeadline == 3

VARIABLES
    wsAction,           \* "stop" or "restart"
    wsPc,               \* "idle", "check", "sleep", "query", "start", "returned"
    wsElapsed,          \* polling intervals since the deadline was set
    wsService,          \* the state the service is in
    wsObserved,         \* status.State of the last answer, "none" before
    wsObservedAt,       \* wsElapsed when that answer came
    wsStarted,          \* s.Start() has been called
    wsErr               \* the error returned, "nil", or "none" before the return

winStopVars == <<wsAction, wsPc, wsElapsed, wsService, wsObserved, wsObservedAt,
                 wsStarted, wsErr>>

WinReturn(err) ==
    /\ wsPc' = "returned"
    /\ wsErr' = err

\* status, err := s.Control(svc.Stop); timeout := time.Now().Add(30 * time.Second)
WinControlStop(action) ==
    /\ wsPc = "idle"
    /\ wsAction' = action
    /\ \/ /\ WinReturn("failed to stop service")
          /\ UNCHANGED <<wsElapsed, wsService, wsObserved, wsObservedAt, wsStarted>>
       \/ \E st \in {"StopPending", "Stopped"} :
            /\ wsService' = st
            /\ wsObserved' = st
            /\ wsObservedAt' = 0
            /\ wsElapsed' = 0
            /\ wsPc' = "check"
            /\ UNCHANGED <<wsStarted, wsErr>>

\* for status.State != svc.Stopped { if time.Now().After(timeout) { return ... }
WinLoopCheck ==
    /\ wsPc = "check"
    /\ IF wsObserved = "Stopped"
       THEN IF wsAction = "stop"
            THEN WinReturn("nil")
            ELSE wsPc' = "start" /\ UNCHANGED wsErr
       ELSE IF wsElapsed > stopDeadline
            THEN WinReturn("timeout waiting for service to stop")
            ELSE wsPc' = "sleep" /\ UNCHANGED wsErr
    /\ UNCHANGED <<wsAction, wsElapsed, wsService, wsObserved, wsObservedAt, wsStarted>>

\* time.Sleep(300 * time.Millisecond)
WinSleep ==
    /\ wsPc = "sleep"
    /\ wsElapsed' = wsElapsed + 1
    /\ wsPc' = "query"
    /\ UNCHANGED <<wsAction, wsService, wsObserved, wsObservedAt, wsStarted, wsErr>>

\* status, err = s.Query(): it fails, or answers at once or an interval later
WinQuery ==
    /\ wsPc = "query"
    /\ \/ /\ WinReturn("failed to query service status")
          /\ UNCHANGED <<wsElapsed, wsObserved, wsObservedAt>>
       \/ \E late \in {0, 1} :
            /\ wsElapsed' = wsElapsed + late
            /\ wsObserved' = wsService
            /\ wsObservedAt' = wsElapsed + late
            /\ wsPc' = "check"
            /\ UNCHANGED wsErr
    /\ UNCHANGED <<wsAction, wsService, wsStarted>>

\* restart: err = s.Start()
WinStart ==
    /\ wsPc = "start"
    /\ wsStarted' = TRUE
    /\ \/ WinReturn("failed to start service after stop") /\ UNCHANGED wsService
       \/ WinReturn("nil") /\ wsService' = "Running"
    /\ UNCHANGED <<wsAction, wsElapsed, wsObserved, wsObservedAt>>

\* the service finishes stopping
WinServiceStops ==
    /\ wsPc \in {"check", "sleep", "query"}
    /\ wsService = "StopPending"
    /\ wsService' = "Stopped"
    /\ UNCHANGED <<wsAction, wsPc, wsElapsed, wsObserved, wsObservedAt, wsStarted, wsErr>>

InitWinStop ==
    /\ wsAction = "stop"
    /\ wsPc = "idle"
    /\ wsElapsed = 0
    /\ wsService = "Running"
    /\ wsObserved = "none"
    /\ wsObservedAt = 0
    /\ wsStarted = FALSE
    /\ wsErr = "none"

NextWinStop ==
    \/ \E action \in {"stop", "restart"} : WinControlStop(action)
    \/ WinLoopCheck
    \/ WinSleep
    \/ WinQuery
    \/ WinStart
    \/ WinServiceStops

StoppedSeenInTime == wsObserved = "Stopped" /\ wsObservedAt <= stopDeadline

\* C33: stop returns success only with Stopped observed within the deadline,
\* anything else it returns once the deadline has passed is the timeout
\* error, and restart calls Start only with Stopped observed within the
\* deadline, never after a timeout or a failed query.
C33_StopObservedWithinDeadline ==
    /\ (wsPc = "returned" /\ wsAction = "stop" /\ wsErr = "nil") => StoppedSeenInTime
    /\ wsStarted => StoppedSeenInTime
    /\ (wsPc = "returned" /\ wsErr \in {"timeout waiting for service to stop",
                                        "failed to query service status"}) => ~wsStarted

(***************************************************************************)
(* Command handlers: panic recovery, replies and the self-metric counters. *)
(* The task a handler calls (ControlService, FetchLogLines, ExecuteCommand)*)
(* is seen here by its result only.                                        *)
(***************************************************************************)
VARIABLES
    hpc,                \* the statement the running handler is at; "idle": none runs
    reqSubject,         \* command subject of the request being handled
    reqBody,            \* whether json.Unmarshal accepts its body
    taskErr,            \* the error the task returned to the handler
    replies,            \* statuses of the replies sent to this request, in order
    replyError,         \* the error field of the latest of these replies
    erroredAtDelivery,  \* commandsErrored when this request was delivered
    processedAtDelivery,\* commandsProcessed when this request was delivered
    heldLocks,          \* the locks the handler holds
    heldAtReply,        \* the locks it held when it sent the latest reply
    panicked,           \* the handler of this request panicked
    alive,              \* the agent process runs
    commandsProcessed,  \* ExecutorStats.commandsProcessed
    commandsErrored,    \* ExecutorStats.commandsErrored
    lastError,          \* ExecutorStats.lastError
    lastErrorTime,      \* ExecutorStats.lastErrorTime, as the number of the request
    healthReport,       \* counters in the latest health reply
    handled,            \* requests that have been handled to the end
    failed,             \* handled requests that failed at parse, gate or execution
    panics              \* handled requests whose handler panicked

handlerVars == <<hpc, reqSubject, reqBody, taskErr, replies, replyError,
                 erroredAtDelivery, processedAtDelivery, heldLocks, heldAtReply,
                 panicked, alive, commandsProcessed, commandsErrored,
                 lastError, lastErrorTime, healthReport, handled, failed, panics>>

MaxRequests == 3

Subjects == {"ping", "service", "logs", "exec", "health"}
TaskSubjects == {"service", "logs", "exec"}
Bodies == {"ok", "malformed"}
\* nil, the gate's denial, or a failure of the execution
TaskErrors == {"nil", "not in allowed list", "failed"}

\* the name, path or command of the request, as the error texts quote it
RequestedName == <<"x">>

\* the error of the whitelist gate of each task: ControlService,
\* FetchLogLines, ExecuteCommand (linux, freebsd)
GateError(subject) ==
    IF subject = "service"
    THEN <<"s", "e", "r", "v", "i", "c", "e", " ", "n", "o", "t", " ", "i", "n",
           " ", "a", "l", "l", "o", "w", "e", "d", " ", "l", "i", "s", "t", ":",
           " ">>
         \o RequestedName
    ELSE IF subject = "logs"
    THEN <<"l", "o", "g", " ", "p", "a", "t", "h", " ", "n", "o", "t", " ", "i",
           "n", " ", "a", "l", "l", "o", "w", "e", "d", " ", "l", "i", "s", "t",
           ":", " ">>
         \o RequestedName
    ELSE <<"c", "o", "m", "m", "a", "n", "d", " ", "n", "o", "t", " ", "i", "n",
           " ", "a", "l", "l", "o", "w", "e", "d", " ", "l", "i", "s", "t", " ",
           "o", "r", " ", "s", "c", "r", "i", "p", "t", "s", " ", "d", "i", "r",
           "e", "c", "t", "o", "r", "y">>

InvalidRequestFormat ==
    <<"I", "n", "v", "a", "l", "i", "d", " ", "r", "e", "q", "u", "e", "s", "t",
      " ", "f", "o", "r", "m", "a", "t">>
HandlerPanicked ==
    <<"I", "n", "t", "e", "r", "n", "a", "l", " ", "e", "r", "r", "o", "r", ":",
      " ", "h", "a", "n", "d", "l", "e", "r", " ", "p", "a", "n", "i", "c", "k",
      "e", "d", ":", " ">>
ExecutionFailed == <<"f", "a", "i", "l", "e", "d">>

\* err.Error()
ErrorText(subject, err) ==
    IF err = "nil" THEN <<>>
    ELSE IF err = "not in allowed list" THEN GateError(subject) ELSE ExecutionFailed

InitHandlers ==
    /\ hpc = "idle"
    /\ reqSubject = "none"
    /\ reqBody = "ok"
    /\ taskErr = "nil"
    /\ replies = <<>>
    /\ replyError = <<>>
    /\ erroredAtDelivery = 0
    /\ processedAtDelivery = 0
    /\ heldLocks = {}
    /\ heldAtReply = {}
    /\ panicked = FALSE
    /\ alive = TRUE
    /\ commandsProcessed = 0
    /\ commandsErrored = 0
    /\ lastError = ""
    /\ lastErrorTime = 0
    /\ healthReport = [processed |-> 0, errored |-> 0]
    /\ handled = 0
    /\ failed = 0
    /\ panics = 0

\* the first statement of each handler
Entry(subject) ==
    IF subject = "ping" THEN "respond"
    ELSE IF subject = "health" THEN "metrics" ELSE "parse"

\* the bus delivers a request to the handler subscribed to its subject
Deliver ==
    /\ hpc = "idle" /\ alive
    /\ handled < MaxRequests
    /\ \E subject \in Subjects, body \in Bodies :
         /\ subject \notin TaskSubjects => body = "ok"
         /\ reqSubject' = subject
         /\ reqBody' = body
         /\ hpc' = Entry(subject)
    /\ taskErr' = "nil"
    /\ replies' = <<>>
    /\ replyError' = <<>>
    /\ erroredAtDelivery' = commandsErrored
    /\ processedAtDelivery' = commandsProcessed
    /\ heldAtReply' = {}
    /\ panicked' = FALSE
    /\ UNCHANGED <<heldLocks, alive, commandsProcessed, commandsErrored, lastError, lastErrorTime,
                   healthReport, handled, failed, panics>>

\* msg.Respond
Respond(status) == replies' = Append(replies, status) /\ heldAtReply' = heldLocks

\* msg.Respond of a reply with this error field
RespondWith(status, error) == Respond(status) /\ replyError' = error

\* mu.Lock() or mu.RLock() with the deferred unlock: held inside the call only
LockedCall(mu) == heldLocks' = (heldLocks \cup {mu}) \ {mu}

RecordCommandSuccess ==
    /\ LockedCall("stats.mu")
    /\ commandsProcessed' = commandsProcessed + 1
    /\ UNCHANGED <<commandsErrored, lastError, lastErrorTime>>

RecordCommandError(err) ==
    /\ LockedCall("stats.mu")
    /\ commandsErrored' = commandsErrored + 1
    /\ commandsProcessed' = commandsProcessed + 1
    /\ lastError' = err
    /\ lastErrorTime' = handled + 1

\* the parse failure path without its respondError
ParseNoReply ==
    /\ hpc = "parse"
    /\ hpc' = IF reqBody = "malformed" THEN "record parse error" ELSE "execute"
    /\ UNCHANGED <<reqSubject, reqBody, taskErr, replies, replyError, heldAtReply,
                   panicked, alive, commandsProcessed, commandsErrored, lastError,
                   lastErrorTime, healthReport, handled, failed, panics,
                   erroredAtDelivery, processedAtDelivery, heldLocks>>

\* json.Unmarshal; on failure respondError("Invalid request format")
Parse ==
    /\ hpc = "parse"
    /\ IF reqBody = "malformed"
       THEN RespondWith("error", InvalidRequestFormat) /\ hpc' = "record parse error"
       ELSE UNCHANGED <<replies, replyError, heldAtReply>> /\ hpc' = "execute"
    /\ UNCHANGED <<reqSubject, reqBody, taskErr, panicked, alive, commandsProcessed,
                   commandsErrored, lastError, lastErrorTime, healthReport, handled,
                   failed, panics, erroredAtDelivery,
                   processedAtDelivery, heldLocks>>

\* RecordCommandError after the reply of the parse failure, then return
RecordParseError ==
    /\ hpc = "record parse error"
    /\ RecordCommandError("invalid request")
    /\ hpc' = "return"
    /\ UNCHANGED <<reqSubject, reqBody, taskErr, replies, replyError, panicked, alive,
                   healthReport, handled, failed, panics, erroredAtDelivery,
                   processedAtDelivery, heldAtReply>>

\* the call of the task
Execute ==
    /\ hpc = "execute"
    /\ \E err \in TaskErrors :
         /\ taskErr' = err
         /\ hpc' = IF err = "nil" THEN "record success" ELSE "record error"
    /\ UNCHANGED <<reqSubject, reqBody, replies, replyError, panicked, alive,
                   commandsProcessed, commandsErrored, lastError, lastErrorTime,
                   healthReport, handled, failed, panics, erroredAtDelivery,
                   processedAtDelivery, heldLocks, heldAtReply>>

RecordError ==
    /\ hpc = "record error"
    /\ RecordCommandError(taskErr)
    /\ hpc' = "respond error"
    /\ UNCHANGED <<reqSubject, reqBody, taskErr, replies, replyError, panicked, alive,
                   healthReport, handled, failed, panics, erroredAtDelivery,
                   processedAtDelivery, heldAtReply>>

\* the error reply with the text of respondError in place of err.Error()
RespondErrorInvalid ==
    /\ hpc = "respond error"
    /\ RespondWith("error", InvalidRequestFormat)
    /\ hpc' = "return"
    /\ UNCHANGED <<reqSubject, reqBody, taskErr, erroredAtDelivery,
                   processedAtDelivery, heldLocks, panicked, alive,
                   commandsProcessed, commandsErrored, lastError, lastErrorTime,
                   healthReport, handled, failed, panics>>

RespondError ==
    /\ hpc = "respond error"
    /\ RespondWith("error", ErrorText(reqSubject, taskErr))
    /\ hpc' = "return"
    /\ UNCHANGED <<reqSubject, reqBody, taskErr, panicked, alive, commandsProcessed,
                   commandsErrored, lastError, lastErrorTime, healthReport, handled,
                   failed, panics, erroredAtDelivery,
                   processedAtDelivery, heldLocks>>

RecordSuccess ==
    /\ hpc = "record success"
    /\ RecordCommandSuccess
    /\ hpc' = "respond success"
    /\ UNCHANGED <<reqSubject, reqBody, taskErr, replies, replyError, panicked, alive,
                   healthReport, handled, failed, panics, erroredAtDelivery,
                   processedAtDelivery, heldAtReply>>

RespondSuccess ==
    /\ hpc = "respond success"
    /\ RespondWith("success", <<>>)
    /\ hpc' = "log"
    /\ UNCHANGED <<reqSubject, reqBody, taskErr, panicked, alive, commandsProcessed,
                   commandsErrored, lastError, lastErrorTime, healthReport, handled,
                   failed, panics, erroredAtDelivery,
                   processedAtDelivery, heldLocks>>

\* handleHealth: GetAgentMetrics
\* GetAgentMetrics returning with the read lock still held
ReadMetricsKeepingLock ==
    /\ hpc = "metrics"
    /\ heldLocks' = heldLocks \cup {"stats.mu"}
    /\ healthReport' = [processed |-> commandsProcessed, errored |-> commandsErrored]
    /\ hpc' = "respond"
    /\ UNCHANGED <<reqSubject, reqBody, taskErr, replies, replyError, panicked, alive,
                   commandsProcessed, commandsErrored, lastError, lastErrorTime,
                   handled, failed, panics, erroredAtDelivery,
                   processedAtDelivery, heldAtReply>>

ReadMetrics ==
    /\ hpc = "metrics"
    /\ LockedCall("stats.mu")
    /\ healthReport' = [processed |-> commandsProcessed, errored |-> commandsErrored]
    /\ hpc' = "respond"
    /\ UNCHANGED <<reqSubject, reqBody, taskErr, replies, replyError, panicked, alive,
                   commandsProcessed, commandsErrored, lastError, lastErrorTime,
                   handled, failed, panics, erroredAtDelivery,
                   processedAtDelivery, heldAtReply>>

\* handlePing, handleHealth: the reply
RespondStatus ==
    /\ hpc = "respond"
    /\ RespondWith(IF reqSubject = "ping" THEN "pong" ELSE "healthy", <<>>)
    /\ hpc' = "log"
    /\ UNCHANGED <<reqSubject, reqBody, taskErr, panicked, alive, commandsProcessed,
                   commandsErrored, lastError, lastErrorTime, healthReport, handled,
                   failed, panics, erroredAtDelivery,
                   processedAtDelivery, heldLocks>>

\* the log statement that follows the reply
LogSent ==
    /\ hpc = "log"
    /\ hpc' = "return"
    /\ UNCHANGED <<reqSubject, reqBody, taskErr, replies, replyError, panicked, alive,
                   commandsProcessed, commandsErrored, lastError, lastErrorTime,
                   healthReport, handled, failed, panics, erroredAtDelivery,
                   processedAtDelivery, heldLocks, heldAtReply>>

\* the request failed at parse, gate or execution
RequestFailed == reqBody = "malformed" \/ taskErr # "nil"

\* the handler, or the recovery around it, returns
ReturnFromHandler ==
    /\ hpc = "return"
    /\ hpc' = "idle"
    /\ handled' = handled + 1
    /\ failed' = IF RequestFailed THEN failed + 1 ELSE failed
    /\ panics' = IF panicked THEN panics + 1 ELSE panics
    /\ UNCHANGED <<reqSubject, reqBody, taskErr, replies, replyError, panicked, alive,
                   commandsProcessed, commandsErrored, lastError, lastErrorTime,
                   healthReport, erroredAtDelivery,
                   processedAtDelivery, heldLocks, heldAtReply>>

\* handleWithRecovery, when the statement the handler is at panics: the deferred
\* function recovers, logs, and responds with status "error"
Recover ==
    /\ hpc \notin {"idle", "return"}
    /\ panicked' = TRUE
    /\ RespondWith("error", HandlerPanicked)
    /\ hpc' = "return"
    /\ UNCHANGED <<reqSubject, reqBody, taskErr, alive, commandsProcessed,
                   commandsErrored, lastError, lastErrorTime, healthReport, handled,
                   failed, panics, erroredAtDelivery,
                   processedAtDelivery, heldLocks>>

NextHandlers ==
    \/ Deliver \/ Parse \/ RecordParseError \/ Execute \/ RecordError \/ RespondError
    \/ RecordSuccess \/ RespondSuccess \/ ReadMetrics \/ RespondStatus \/ LogSent
    \/ ReturnFromHandler \/ Recover

\* C6: a panic at any point of a handler body is caught: the request gets
\* exactly one reply in total, with status "error", and the process lives on.
C6_PanicGivesOneErrorReply ==
    (hpc = "return" /\ panicked) => (replies = <<"error">> /\ alive)

\* C7: without panics, after any sequence of requests on the five subjects
\* commands_processed is the number of requests handled and commands_errored
\* the number of those that failed.
C7_CountersCountRequests ==
    (hpc = "idle" /\ panics = 0) =>
        (commandsProcessed = handled /\ commandsErrored = failed)

\* a request refused by the whitelist gate of its task has been handled to
\* the return of its handler, without a panic
DenialHandled ==
    /\ hpc = "return"
    /\ ~panicked
    /\ reqSubject \in TaskSubjects
    /\ taskErr = "not in allowed list"

NotInAllowedList ==
    <<"n", "o", "t", " ", "i", "n", " ", "a", "l", "l", "o", "w", "e", "d", " ", "l", "i", "s", "t">>

\* C19: a service, log or exec request refused by the whitelist gate of its
\* task, in a handler that does not panic, gets one reply, of status "error" and
\* an error text that contains "not in allowed list", and commands_errored is
\* one more than when the request was delivered.
C19_DenialRepliedAndCounted ==
    DenialHandled =>
        /\ replies = <<"error">>
        /\ Contains(replyError, NotInAllowedList)
        /\ commandsErrored = erroredAtDelivery + 1

C19_Witness ==
    /\ DenialHandled
    /\ reqSubject = "exec"
    /\ replyError = GateError("exec")
    /\ commandsErrored = 2

\* C36: every reply is sent with no lock held by the handler that sends it.
C36_NoLockAcrossReply ==
    /\ heldAtReply = {}
    /\ hpc \in {"respond", "respond error", "respond success"} => heldLocks = {}

\* a health reply, sent after GetAgentMetrics has read the counters
C36_Witness ==
    /\ reqSubject = "health" /\ replies = <<"healthy">> /\ heldAtReply = {}
    /\ healthReport.processed = 2

\* C37: a request whose handler returns without a panic has got exactly one
\* reply, whatever the subject and the path through the handler.
C37_ExactlyOneReply ==
    (hpc = "return" /\ ~panicked) => Len(replies) = 1

\* an unparsable request answered once
C37_Witness ==
    /\ hpc = "return" /\ ~panicked
    /\ reqSubject = "logs" /\ reqBody = "malformed"
    /\ replies = <<"error">>

\* C38: from the moment the reply of a service, log or exec request is sent
\* by its handler, commands_processed counts that request.
C38_CountedBeforeReply ==
    (reqSubject \in TaskSubjects /\ replies # <<>> /\ ~panicked) =>
        commandsProcessed > processedAtDelivery


(***************************************************************************)
(* handleCustomExec: the reply it builds from what ExecuteCommand returns, *)
(* as json.Marshal encodes it                                              *)
(***************************************************************************)
VARIABLES
    xBody,              \* whether json.Unmarshal accepts the body of the request
    xCommand,           \* req.Command
    xResult,            \* what ExecuteCommand returned: output, exitCode, err
    xReply,             \* the reply sent: a field is <<>> when the encoding omits it
    xProcessed,         \* ExecutorStats.commandsProcessed
    xErrored            \* ExecutorStats.commandsErrored

xVars == <<xBody, xCommand, xResult, xReply, xProcessed, xErrored>>

ExecOutputs == {"", "out"}
ExecCommands == {"sleep 30", "df -h"}

\* what ExecuteCommand returns: the gate's denial, a script path that does not
\* resolve, and the results of executeBash
ExecuteCommandResults ==
    {[output |-> "", exitCode |-> -1, err |-> e] :
        e \in {"command not in allowed list or scripts directory",
               "failed to resolve script path",
               "failed to execute command",
               "command execution timeout"}}
    \cup {[output |-> o, exitCode |-> c, err |-> "command exited with code"] :
            o \in ExecOutputs, c \in (ExitCodes \ {0}) \cup {-1}}
    \cup {[output |-> o, exitCode |-> 0, err |-> "nil"] : o \in ExecOutputs}

NoExecResult == [output |-> "", exitCode |-> 0, err |-> "none"]
NoExecReply == [status |-> "none", command |-> <<>>, output |-> <<>>, exitCode |-> <<>>,
                error |-> <<>>]

\* encoding/json: a field tagged omitempty is left out when it is 0 or ""
OmitEmpty(v, zero) == IF v = zero THEN <<>> ELSE <<v>>

\* json.Marshal of customExecResponse (errorResponse has a subset of its fields)
customExecResponse(status, command, output, code, error) ==
    [status   |-> status,
     command  |-> OmitEmpty(command, ""),
     output   |-> OmitEmpty(output, ""),
     exitCode |-> OmitEmpty(code, 0),
     error    |-> OmitEmpty(error, "")]

InitExecReply ==
    /\ xBody = "ok"
    /\ xCommand = ""
    /\ xResult = NoExecResult
    /\ xReply = NoExecReply
    /\ xProcessed = 0
    /\ xErrored = 0

\* handleCustomExec, from the parse of the request to the reply
handleCustomExec ==
    /\ xProcessed < MaxRequests
    /\ \E body \in Bodies, command \in ExecCommands, r \in ExecuteCommandResults :
         /\ xBody' = body
         /\ IF body = "malformed"
            THEN /\ xCommand' = ""
                 /\ xResult' = NoExecResult
                 /\ xReply' = customExecResponse("error", "", "", 0, "Invalid request format")
                 /\ xErrored' = xErrored + 1
            ELSE /\ xCommand' = command
                 /\ xResult' = r
                 /\ IF r.err # "nil"
                    THEN /\ xReply' = customExecResponse("error", "", "", 0, r.err)
                         /\ xErrored' = xErrored + 1
                    ELSE /\ xReply' = customExecResponse("success", command, r.output,
                                                         r.exitCode, "")
                         /\ xErrored' = xErrored
    /\ xProcessed' = xProcessed + 1

NextExecReply == handleCustomExec

\* C21: the reply to an exec request whose command timed out has status
\* "error", carries exit_code -1, and has the timeout error as its error text.
C21_TimeoutReplyCarriesExitCode ==
    xResult.err = "command execution timeout" =>
        /\ xReply.status = "error"
        /\ xReply.exitCode = <<-1>>
        /\ xReply.error = <<"command execution timeout">>

(***************************************************************************)
(* ExecutorStats under concurrent callers: RecordCommandSuccess,           *)
(* RecordCommandError and GetAgentMetrics statement by statement, with the *)
(* read-write lock stats.mu                                                *)
(***************************************************************************)
MaxStatCalls == 3

VARIABLES
    spc,                \* per goroutine: the statement it is at, "idle" between calls
    sop,                \* per goroutine: the call it makes
    stmp,               \* per goroutine: the value it has loaded
    muWriter,           \* the goroutine holding stats.mu for writing, 0 if none
    muReaders,          \* the goroutines holding stats.mu for reading
    statProcessed,      \* stats.commandsProcessed
    statErrored,        \* stats.commandsErrored
    statLastError,      \* stats.lastError
    statErrorTimeSet,   \* stats.lastErrorTime is not the zero time
    statCalls,          \* calls started
    doneSuccess,        \* RecordCommandSuccess calls that have returned
    doneError,          \* RecordCommandError calls that have returned
    recorded,           \* the error texts in the order they were stored
    snapshot,           \* the last AgentMetrics returned: <<>> before the first
    snapRecorded        \* recorded, as it was when that snapshot was returned

statVars == <<spc, sop, stmp, muWriter, muReaders, statProcessed, statErrored,
              statLastError, statErrorTimeSet, statCalls, doneSuccess, doneError,
              recorded, snapshot, snapRecorded>>

StatGoroutines == 1..3
StatErrorTexts == {"invalid request", "service control failed"}
StatOps ==
    {[call |-> "RecordCommandSuccess", err |-> ""], [call |-> "GetAgentMetrics", err |-> ""]}
    \cup {[call |-> "RecordCommandError", err |-> e] : e \in StatErrorTexts}

StatStep(g, to) ==
    /\ spc' = [spc EXCEPT ![g] = to]

StatCall(g, op) ==
    /\ spc[g] = "idle"
    /\ statCalls < MaxStatCalls
    /\ statCalls' = statCalls + 1
    /\ sop' = [sop EXCEPT ![g] = op]
    /\ StatStep(g, IF op.call = "GetAgentMetrics" THEN "rlock" ELSE "lock")
    /\ UNCHANGED <<stmp, muWriter, muReaders, statProcessed, statErrored, statLastError,
                   statErrorTimeSet, doneSuccess, doneError, recorded, snapshot,
                   snapRecorded>>

\* a Lock that does not wait for the holders
StatLockNoWait(g) ==
    /\ spc[g] = "lock"
    /\ muWriter' = g
    /\ StatStep(g, IF sop[g].call = "RecordCommandError" THEN "loadE" ELSE "loadP")
    /\ UNCHANGED <<sop, stmp, muReaders, statProcessed, statErrored, statLastError,
                   statErrorTimeSet, statCalls, doneSuccess, doneError, recorded,
                   snapshot, snapRecorded>>

\* e.stats.mu.Lock()
StatLock(g) ==
    /\ spc[g] = "lock"
    /\ muWriter = 0 /\ muReaders = {}
    /\ muWriter' = g
    /\ StatStep(g, IF sop[g].call = "RecordCommandError" THEN "loadE" ELSE "loadP")
    /\ UNCHANGED <<sop, stmp, muReaders, statProcessed, statErrored, statLastError,
                   statErrorTimeSet, statCalls, doneSuccess, doneError, recorded,
                   snapshot, snapRecorded>>

\* e.stats.commandsErrored++ and e.stats.commandsProcessed++: load, then store
StatLoad(g) ==
    /\ spc[g] \in {"loadE", "loadP"}
    /\ stmp' = [stmp EXCEPT ![g] = IF spc[g] = "loadE" THEN statErrored ELSE statProcessed]
    /\ StatStep(g, IF spc[g] = "loadE" THEN "storeE" ELSE "storeP")
    /\ UNCHANGED <<sop, muWriter, muReaders, statProcessed, statErrored, statLastError,
                   statErrorTimeSet, statCalls, doneSuccess, doneError, recorded,
                   snapshot, snapRecorded>>

StatStore(g) ==
    /\ spc[g] \in {"storeE", "storeP"}
    /\ IF spc[g] = "storeE"
       THEN /\ statErrored' = stmp[g] + 1
            /\ StatStep(g, "loadP")
            /\ UNCHANGED statProcessed
       ELSE /\ statProcessed' = stmp[g] + 1
            /\ StatStep(g, IF sop[g].call = "RecordCommandError" THEN "setErr" ELSE "unlock")
            /\ UNCHANGED statErrored
    /\ UNCHANGED <<sop, stmp, muWriter, muReaders, statLastError, statErrorTimeSet,
                   statCalls, doneSuccess, doneError, recorded, snapshot, snapRecorded>>

\* e.stats.lastError = err.Error(); e.stats.lastErrorTime = time.Now()
StatSetError(g) ==
    /\ spc[g] = "setErr"
    /\ statLastError' = sop[g].err
    /\ statErrorTimeSet' = TRUE
    /\ recorded' = Append(recorded, sop[g].err)
    /\ StatStep(g, "unlock")
    /\ UNCHANGED <<sop, stmp, muWriter, muReaders, statProcessed, statErrored, statCalls,
                   doneSuccess, doneError, snapshot, snapRecorded>>

\* defer e.stats.mu.Unlock(), and the return
StatUnlock(g) ==
    /\ spc[g] = "unlock"
    /\ muWriter' = IF muWriter = g THEN 0 ELSE muWriter
    /\ doneSuccess' = doneSuccess + (IF sop[g].call = "RecordCommandSuccess" THEN 1 ELSE 0)
    /\ doneError' = doneError + (IF sop[g].call = "RecordCommandError" THEN 1 ELSE 0)
    /\ StatStep(g, "idle")
    /\ UNCHANGED <<sop, stmp, muReaders, statProcessed, statErrored, statLastError,
                   statErrorTimeSet, statCalls, recorded, snapshot, snapRecorded>>

\* an RLock that does not wait for the writer
StatRLockNoWait(g) ==
    /\ spc[g] = "rlock"
    /\ muReaders' = muReaders \cup {g}
    /\ StatStep(g, "readP")
    /\ UNCHANGED <<sop, stmp, muWriter, statProcessed, statErrored, statLastError,
                   statErrorTimeSet, statCalls, doneSuccess, doneError, recorded,
                   snapshot, snapRecorded>>

\* e.stats.mu.RLock()
StatRLock(g) ==
    /\ spc[g] = "rlock"
    /\ muWriter = 0
    /\ muReaders' = muReaders \cup {g}
    /\ StatStep(g, "readP")
    /\ UNCHANGED <<sop, stmp, muWriter, statProcessed, statErrored, statLastError,
                   statErrorTimeSet, statCalls, doneSuccess, doneError, recorded,
                   snapshot, snapRecorded>>

\* CommandsProcessed: e.stats.commandsProcessed
StatReadProcessed(g) ==
    /\ spc[g] = "readP"
    /\ stmp' = [stmp EXCEPT ![g] = statProcessed]
    /\ StatStep(g, "readE")
    /\ UNCHANGED <<sop, muWriter, muReaders, statProcessed, statErrored, statLastError,
                   statErrorTimeSet, statCalls, doneSuccess, doneError, recorded,
                   snapshot, snapRecorded>>

\* CommandsErrored, then LastError if lastErrorTime is set (omitted from the
\* reply when empty), RUnlock and return
StatReadRest(g) ==
    /\ spc[g] = "readE"
    /\ snapshot' = <<[processed |-> stmp[g],
                      errored   |-> statErrored,
                      lastError |-> IF statErrorTimeSet
                                    THEN OmitEmpty(statLastError, "") ELSE <<>>]>>
    /\ snapRecorded' = recorded
    /\ muReaders' = muReaders \ {g}
    /\ StatStep(g, "idle")
    /\ UNCHANGED <<sop, stmp, muWriter, statProcessed, statErrored, statLastError,
                   statErrorTimeSet, statCalls, doneSuccess, doneError, recorded>>

InitStats ==
    /\ spc = [g \in StatGoroutines |-> "idle"]
    /\ sop = [g \in StatGoroutines |-> [call |-> "RecordCommandSuccess", err |-> ""]]
    /\ stmp = [g \in StatGoroutines |-> 0]
    /\ muWriter = 0
    /\ muReaders = {}
    /\ statProcessed = 0
    /\ statErrored = 0
    /\ statLastError = ""
    /\ statErrorTimeSet = FALSE
    /\ statCalls = 0
    /\ doneSuccess = 0
    /\ doneError = 0
    /\ recorded = <<>>
    /\ snapshot = <<>>
    /\ snapRecorded = <<>>

NextStats ==
    \E g \in StatGoroutines :
        \/ \E op \in StatOps : StatCall(g, op)
        \/ StatLock(g)
        \/ StatLoad(g)
        \/ StatStore(g)
        \/ StatSetError(g)
        \/ StatUnlock(g)
        \/ StatRLock(g)
        \/ StatReadProcessed(g)
        \/ StatReadRest(g)

InsideRecord(g) == spc[g] \in {"loadE", "storeE", "loadP", "storeP", "setErr", "unlock"}

\* C34: whenever no Record call is between its Lock and its Unlock, the
\* counters equal the numbers of calls that have returned: commands_processed
\* the number of all Record calls, commands_errored that of RecordCommandError.
C34_NoLostUpdate ==
    (\A g \in StatGoroutines : ~InsideRecord(g)) =>
        /\ statProcessed = doneSuccess + doneError
        /\ statErrored = doneError

\* three Record calls made concurrently, all returned
C34_Witness ==
    /\ \A g \in StatGoroutines : spc[g] = "idle"
    /\ doneSuccess = 1 /\ doneError = 2
    /\ statProcessed = 3 /\ statErrored = 2

\* C35: in every snapshot of GetAgentMetrics commands_errored is at most
\* commands_processed, and last_error is there exactly when commands_errored
\* is positive and is then the error text stored last before the snapshot.
C35_SnapshotConsistent ==
    \A i \in 1..Len(snapshot) :
        /\ snapshot[i].errored <= snapshot[i].processed
        /\ snapshot[i].lastError # <<>> <=> snapshot[i].errored > 0
        /\ snapshot[i].errored > 0 =>
              /\ snapRecorded # <<>>
              /\ snapshot[i].lastError = <<snapRecorded[Len(snapRecorded)]>>

\* a snapshot taken with one error and one success recorded, showing the error
C35_Witness ==
    /\ snapshot # <<>>
    /\ snapshot[1].processed = 2 /\ snapshot[1].errored = 1
    /\ snapshot[1].lastError = <<"invalid request">>

(***************************************************************************)
(* Credential bootstrap: FetchCredentials over the starts of the agent,    *)
(* with the credentials path, the environment and the control plane        *)
(***************************************************************************)
MaxStarts == 3

VARIABLES
    creds,              \* what lies at the credentials path: kind, content, mode
    httpCalls,          \* HTTP requests FetchCredentials has sent so far
    starts,             \* starts of the agent with auth type pocketbase so far
    bootOp,             \* the latest step: "none", "FetchCredentials", "operator"
    fetchErr,           \* what the latest FetchCredentials returned
    busAttempted,       \* New of that start went on to connect to the bus
    credsBefore,        \* creds when the latest FetchCredentials was called
    callsBefore         \* httpCalls when it was called

bootVars == <<creds, httpCalls, starts, bootOp, fetchErr, busAttempted, credsBefore,
              callsBefore>>

NoCreds == [kind |-> "missing", content |-> "", mode |-> ""]
\* files an operator may have put at the path
OperatorFiles ==
    {[kind |-> "file", content |-> "operator's", mode |-> md] : md \in {"0600", "0644"}}

AuthOutcomes == {"ok", "request failed", "status not 200", "unparsable", "no token"}
RecordOutcomes == {"ok", "request failed", "status not 200", "unparsable", "no record",
                   "no field", "empty or not a string"}
WriteOutcomes == {"ok", "mkdir fails", "open fails", "write fails"}

\* os.Stat(credsPath) returning an error for every path
CredsFileNeverExists(f) == FALSE

\* os.Stat(credsPath) returns no error
CredsFileExists(f) == f.kind # "missing"

\* os.WriteFile(path, content, 0600): the file is created or truncated before
\* the bytes are written; the mode applies to a file it creates
WriteFile(f, outcome) ==
    IF outcome = "ok"
    THEN [kind |-> "file", content |-> "payload",
          mode |-> IF f.kind = "missing" THEN "0600" ELSE f.mode]
    ELSE IF outcome = "write fails"
    THEN [kind |-> "file", content |-> "partial",
          mode |-> IF f.kind = "missing" THEN "0600" ELSE f.mode]
    ELSE f

\* FetchCredentials: the error, the file and the requests sent, for the
\* password of the environment and the answers of the control plane and the disk
FetchCredentialsResult(f, password, auth, record, write) ==
    IF CredsFileExists(f) THEN [err |-> "nil", creds |-> f, calls |-> 0]
    ELSE IF ~password THEN [err |-> "password not set", creds |-> f, calls |-> 0]
    ELSE IF auth # "ok" THEN [err |-> "authentication failed", creds |-> f, calls |-> 1]
    ELSE IF record # "ok"
    THEN [err |-> "failed to fetch credentials", creds |-> f, calls |-> 2]
    ELSE IF write # "ok"
    THEN [err |-> "failed to write credentials file", creds |-> WriteFile(f, write),
          calls |-> 2]
    ELSE [err |-> "nil", creds |-> WriteFile(f, write), calls |-> 2]

InitBoot ==
    /\ creds = NoCreds
    /\ httpCalls = 0
    /\ starts = 0
    /\ bootOp = "none"
    /\ fetchErr = "none"
    /\ busAttempted = FALSE
    /\ credsBefore = NoCreds
    /\ callsBefore = 0

\* a start of the agent with auth type pocketbase: New calls FetchCredentials
\* and returns its error, or goes on to the executor and the bus client
StartWithBootstrap ==
    /\ starts < MaxStarts
    /\ \E password \in BOOLEAN, auth \in AuthOutcomes, record \in RecordOutcomes,
          write \in WriteOutcomes :
         LET r == FetchCredentialsResult(creds, password, auth, record, write)
         IN /\ fetchErr' = r.err
            /\ creds' = r.creds
            /\ httpCalls' = httpCalls + r.calls
            /\ busAttempted' = (r.err = "nil")
    /\ starts' = starts + 1
    /\ bootOp' = "FetchCredentials"
    /\ credsBefore' = creds
    /\ callsBefore' = httpCalls

\* between two starts the operator removes the file or puts one there
OperatorChangesCreds ==
    /\ bootOp # "operator"
    /\ starts < MaxStarts
    /\ creds' \in (OperatorFiles \cup {NoCreds}) \ {creds}
    /\ bootOp' = "operator"
    /\ UNCHANGED <<httpCalls, starts, fetchErr, busAttempted, credsBefore, callsBefore>>

NextBoot == StartWithBootstrap \/ OperatorChangesCreds

\* C24: a FetchCredentials call that finds the credentials file in place sends
\* no HTTP request, leaves the content and the mode of the file as they were,
\* and returns nil; so every start after a successful one changes nothing.
C24_ExistingFileSkipsBootstrap ==
    (bootOp = "FetchCredentials" /\ credsBefore.kind # "missing") =>
        /\ httpCalls = callsBefore
        /\ creds = credsBefore
        /\ fetchErr = "nil"

\* a start that found the file a former start had fetched
C24_Witness ==
    /\ bootOp = "FetchCredentials"
    /\ credsBefore = [kind |-> "file", content |-> "payload", mode |-> "0600"]
    /\ creds = credsBefore
    /\ httpCalls = 2
    /\ starts >= 2

\* C25: a FetchCredentials call that fails at any step returns an error, New
\* does not go on to the bus connection, and no file lies at the credentials
\* path afterwards.
C25_FailedBootstrapLeavesNoFile ==
    (bootOp = "FetchCredentials" /\ fetchErr # "nil") =>
        /\ ~busAttempted
        /\ creds.kind = "missing"

(***************************************************************************)
(* Client.PublishTelemetry: the call, and the goroutine that waits for the *)
(* acknowledgement of the durable stream                                   *)
(***************************************************************************)
MaxPublishes == 3

VARIABLES
    published           \* the PublishTelemetry calls so far, one record each

pubVars == <<published>>

TelemetrySubjects == {"heartbeat", "metrics"}

\* PublishTelemetry waiting for the acknowledgement before it returns, as
\* PublishTelemetrySync does
PublishTelemetryWaits(subject, queued) ==
    /\ Len(published) < MaxPublishes
    /\ \E acked \in BOOLEAN :
         published' = Append(published,
             [subject     |-> subject,
              queued      |-> queued,
              ret         |-> IF queued /\ acked THEN "nil" ELSE "error",
              ackAtReturn |-> IF ~queued THEN "none"
                              ELSE IF acked THEN "acked" ELSE "failed",
              ack         |-> IF ~queued THEN "none"
                              ELSE IF acked THEN "acked" ELSE "failed",
              logged      |-> IF queued /\ acked THEN "debug" ELSE "error"])

\* PublishTelemetry: js.PublishAsync queues the message or fails; on success
\* the goroutine is started and nil is returned
PublishTelemetry(subject, queued) ==
    /\ Len(published) < MaxPublishes
    /\ published' = Append(published,
         [subject     |-> subject,
          queued      |-> queued,
          ret         |-> IF queued THEN "nil" ELSE "error",
          ackAtReturn |-> IF queued THEN "pending" ELSE "none",
          ack         |-> IF queued THEN "pending" ELSE "none",
          logged      |-> IF queued THEN "nothing" ELSE "error"])

\* the goroutine: case <-pubAckFuture.Ok()
AckArrives ==
    \E i \in 1..Len(published) :
        /\ published[i].ack = "pending"
        /\ published' = [published EXCEPT ![i].ack = "acked", ![i].logged = "debug"]

\* the goroutine: case err := <-pubAckFuture.Err()
AckFails ==
    \E i \in 1..Len(published) :
        /\ published[i].ack = "pending"
        /\ published' = [published EXCEPT ![i].ack = "failed", ![i].logged = "warn"]

InitPublish == published = <<>>

NextPublish ==
    \/ \E subject \in TelemetrySubjects, queued \in BOOLEAN :
          PublishTelemetry(subject, queued)
    \/ AckArrives
    \/ AckFails

\* C27: every PublishTelemetry call returns an error exactly when queueing
\* failed, returns nil with the acknowledgement still awaited, and a failure
\* of the acknowledgement afterwards is logged as a warning and leaves the
\* returned nil as it is.
C27_PublishDoesNotWaitForAck ==
    \A i \in 1..Len(published) :
        /\ published[i].ret = "error" <=> ~published[i].queued
        /\ published[i].queued => published[i].ackAtReturn = "pending"
        /\ published[i].ack = "failed" =>
              (published[i].ret = "nil" /\ published[i].logged = "warn")

\* a message whose acknowledgement failed after the call had returned nil
C27_Witness ==
    \E i \in 1..Len(published) :
        /\ published[i].ret = "nil"
        /\ published[i].ackAtReturn = "pending"
        /\ published[i].ack = "failed"

(***************************************************************************)
(* Blocking operations: what each wait of the agent watches while it       *)
(* waits: the answer of the other side, a deadline of its own, the root    *)
(* context                                                                 *)
(***************************************************************************)
MaxOpTime == 5

\* deadlines in ticks of ten seconds
scrapeTimeout == 3
commandTimeout == 2
serviceStopTimeout == 3

VARIABLES
    opKind,             \* the operation in flight, or "none"
    opPlatform,         \* the build the operation runs on
    opPhase,            \* "idle", "waiting" or "returned"
    opElapsed,          \* ticks spent waiting
    opEnd,              \* why the wait ended: "answer", "deadline", "cancelled"
    tokenCancelled,     \* the root context of the operation is cancelled
    opSinceCancel       \* ticks spent waiting since the cancellation

waitVars == <<opKind, opPlatform, opPhase, opElapsed, opEnd, tokenCancelled,
              opSinceCancel>>

BlockingKinds == {"scrape", "exec", "ack", "service stop", "service restart"}

\* the builds on which the operation waits for somebody else at all
RunsOn(op, p) ==
    CASE op = "exec" -> p \in {"linux", "freebsd"}
      [] op \in {"service stop", "service restart"} ->
            p \in {"linux", "freebsd", "windows"}
      [] OTHER -> TRUE

\* the deadline the wait carries itself: <<ticks>>, or <<>> if it has none
OwnDeadline(op, p) ==
    CASE op = "scrape" -> <<scrapeTimeout>>
      [] op = "exec" -> <<commandTimeout>>
      [] op = "ack" -> <<>>
      [] op \in {"service stop", "service restart"} ->
            IF p = "windows" THEN <<serviceStopTimeout>> ELSE <<>>

\* the wait ends when the root context is cancelled
WatchesRootContext(op) == op = "scrape"

WaitStart(op, p) ==
    /\ opPhase = "idle"
    /\ RunsOn(op, p)
    /\ opKind' = op
    /\ opPlatform' = p
    /\ opPhase' = "waiting"
    /\ opElapsed' = 0
    /\ opSinceCancel' = 0
    /\ UNCHANGED <<opEnd, tokenCancelled>>

\* Agent.Shutdown: a.cancel()
CancelRootContext ==
    /\ ~tokenCancelled
    /\ tokenCancelled' = TRUE
    /\ UNCHANGED <<opKind, opPlatform, opPhase, opElapsed, opEnd, opSinceCancel>>

WaitEnds(why) ==
    /\ opPhase' = "returned"
    /\ opEnd' = why
    /\ UNCHANGED <<opKind, opPlatform, opElapsed, tokenCancelled, opSinceCancel>>

\* the exporter responds, the child exits, the future resolves, the service
\* manager reports the service stopped
OtherSideAnswers ==
    /\ opPhase = "waiting"
    /\ WaitEnds("answer")

DeadlinePasses ==
    /\ opPhase = "waiting"
    /\ OwnDeadline(opKind, opPlatform) # <<>>
    /\ opElapsed >= OwnDeadline(opKind, opPlatform)[1]
    /\ WaitEnds("deadline")

ContextDone ==
    /\ opPhase = "waiting"
    /\ WatchesRootContext(opKind)
    /\ tokenCancelled
    /\ WaitEnds("cancelled")

WaitTick ==
    /\ opPhase = "waiting"
    /\ opElapsed < MaxOpTime
    /\ ~ENABLED (DeadlinePasses \/ ContextDone)
    /\ opElapsed' = opElapsed + 1
    /\ opSinceCancel' = IF tokenCancelled THEN opSinceCancel + 1 ELSE 0
    /\ UNCHANGED <<opKind, opPlatform, opPhase, opEnd, tokenCancelled>>

NextOperation ==
    /\ opPhase = "returned"
    /\ opPhase' = "idle"
    /\ opKind' = "none"
    /\ opEnd' = "none"
    /\ opElapsed' = 0
    /\ opSinceCancel' = 0
    /\ UNCHANGED <<opPlatform, tokenCancelled>>

InitWaits ==
    /\ opKind = "none"
    /\ opPlatform \in Platforms
    /\ opPhase = "idle"
    /\ opElapsed = 0
    /\ opEnd = "none"
    /\ tokenCancelled = FALSE
    /\ opSinceCancel = 0

NextWaits ==
    \/ \E op \in BlockingKinds : WaitStart(op, opPlatform)
    \/ CancelRootContext
    \/ OtherSideAnswers
    \/ DeadlinePasses
    \/ ContextDone
    \/ WaitTick
    \/ NextOperation

\* C28: once the root context is cancelled no operation goes on waiting: no
\* time passes in a wait after the cancellation.
C28_CancelEndsEveryWait ==
    (opPhase = "waiting" /\ tokenCancelled) => opSinceCancel = 0

\* C29: every scrape, exec and service stop or restart in flight has a
\* deadline of its own and has not waited beyond it.
C29_EveryWaitHasDeadline ==
    (opPhase = "waiting" /\ opKind # "ack") =>
        /\ OwnDeadline(opKind, opPlatform) # <<>>
        /\ opElapsed <= OwnDeadline(opKind, opPlatform)[1]

(***************************************************************************)
(* Scheduler: the four periodic jobs, their ticks and the executions of    *)
(* their tasks                                                             *)
(***************************************************************************)
MaxCoalesced == 2

VARIABLES
    inFlight,           \* per job: executions of its task that have not returned
    queuedTicks,        \* per job: ticks kept to be run after the execution in flight
    coalesced           \* per job: ticks that fell due during the execution in flight

schedVars == <<inFlight, queuedTicks, coalesced>>

JobKinds == {"heartbeat", "system_metrics", "service_check", "inventory"}

\* a tick that starts the task whether or not an execution is in flight
TickStartsAlways(job) ==
    /\ inFlight[job] < 2
    /\ inFlight' = [inFlight EXCEPT ![job] = @ + 1]
    /\ UNCHANGED <<queuedTicks, coalesced>>

\* the period of the job elapses: the task is started if none is in flight,
\* otherwise the tick is dropped
TickFallsDue(job) ==
    IF inFlight[job] = 0
    THEN /\ inFlight' = [inFlight EXCEPT ![job] = 1]
         /\ UNCHANGED <<queuedTicks, coalesced>>
    ELSE /\ coalesced[job] < MaxCoalesced
         /\ coalesced' = [coalesced EXCEPT ![job] = @ + 1]
         /\ UNCHANGED <<inFlight, queuedTicks>>

\* task() returns; the next execution waits for the next tick
TaskReturns(job) ==
    /\ inFlight[job] > 0
    /\ inFlight' = [inFlight EXCEPT ![job] = @ - 1]
    /\ coalesced' = [coalesced EXCEPT ![job] = 0]
    /\ UNCHANGED queuedTicks

InitScheduler ==
    /\ inFlight = [job \in JobKinds |-> 0]
    /\ queuedTicks = [job \in JobKinds |-> 0]
    /\ coalesced = [job \in JobKinds |-> 0]

NextScheduler ==
    \/ \E job \in JobKinds : TickFallsDue(job)
    \/ \E job \in JobKinds : TaskReturns(job)

\* C30: no job has more than one execution of its task in flight, and no tick
\* is kept to be run after it.
C30_OneExecutionPerJob ==
    \A job \in JobKinds : inFlight[job] <= 1 /\ queuedTicks[job] = 0

\* a job whose task overran two ticks while another job was running too
C30_Witness ==
    \E job, other \in JobKinds :
        /\ job # other
        /\ inFlight[job] = 1 /\ coalesced[job] = 2
        /\ inFlight[other] = 1

(***************************************************************************)
(* Agent lifecycle: New, Run, Shutdown, and Client.Drain                   *)
(***************************************************************************)
VARIABLES
    apc,                \* the step the agent is about to run
    cfgAuth,            \* config: nats.auth.type as loaded
    authType,           \* cfg.NATS.Auth.Type as the bus client will see it
    metricsSource,      \* config: tasks.system_metrics.source
    exporterURL,        \* config: tasks.system_metrics.exporter_url is set
    credsFile,          \* the credentials file exists
    rootCancelled,      \* the root context is cancelled
    collectorBuilt,     \* the collector NewExecutor constructed; "none": not yet
    conn,               \* the bus connection
    jetStreamChecked,   \* js.AccountInfo has answered
    subscribed,         \* command subjects subscribed, in order
    sched,              \* the scheduler: "none", "created", "running", "stopped"
    newErr,             \* what New returned: "none" not yet, "nil", or the failed step
    ran,                \* the steps that ran, in order
    drainResult,        \* what Client.Drain returned; "none": not called
    drainWhen           \* when it returned

agentVars == <<apc, cfgAuth, authType, metricsSource, exporterURL, credsFile,
               rootCancelled, collectorBuilt, conn, jetStreamChecked, subscribed, sched,
               newErr, ran, drainResult, drainWhen>>

\* Last element of a non-empty sequence
Last(seq) == seq[Len(seq)]

\* the element after e in seq, or otherwise when e is the last one
Following(seq, e, otherwise) ==
    LET i == CHOOSE j \in 1..Len(seq) : seq[j] = e
    IN IF i < Len(seq) THEN seq[i + 1] ELSE otherwise

\* New: the calls it makes, in the order of its body
NewSteps == <<"config.Load", "initLogger", "FetchCredentials", "NewExecutor",
              "NewClient", "SubscribeAll", "scheduler.New">>

\* Shutdown with the bus drained before the scheduler is stopped
ShutdownStepsDrainFirst == <<"cancel", "Drain", "scheduler.Shutdown", "Sync">>

\* Shutdown: the calls it makes, in the order of its body
ShutdownSteps == <<"cancel", "scheduler.Shutdown", "Drain", "Sync">>

\* New going on to its next call whatever the last one returned
AfterStepIgnoringFailure(step, ok) == Following(NewSteps, step, "built")

\* New after a call: "if err != nil { return nil, ... }", else the next call
AfterStep(step, ok) == IF ok THEN Following(NewSteps, step, "built") ELSE "failed"

\* SubscribeAll: the subjects in the order it subscribes them
CommandSubjects == <<"ping", "service", "logs", "exec", "health">>

\* NewMetricsCollector: the collector, or "none" with an error
NewMetricsCollector(source, url) ==
    IF source \in {"", "builtin"} THEN "builtin"
    ELSE IF source = "exporter" THEN (IF url THEN "exporter" ELSE "none")
    ELSE "none"

MetricsSources == {"", "exporter", "prometheus"}
AuthTypes == {"pocketbase", "creds"}
\* nats.Connect, conn.JetStream and js.AccountInfo, as NewClient meets them
ClientOutcomes == {"ok", "connect fails", "JetStream fails", "AccountInfo fails"}
\* conn.Drain of the bus library: it closes the connection before it returns,
\* returns while the connection still drains, returns an error with the
\* connection closed or left as it was, or does not return before the timeout
DrainOutcomes == {"closes", "still draining", "fails", "fails open", "late"}

InitAgent ==
    /\ apc = "config.Load"
    /\ cfgAuth \in AuthTypes
    /\ authType = cfgAuth
    /\ metricsSource \in MetricsSources
    /\ exporterURL \in BOOLEAN
    /\ credsFile = FALSE
    /\ rootCancelled = FALSE
    /\ collectorBuilt = "none"
    /\ conn = "none"
    /\ jetStreamChecked = FALSE
    /\ subscribed = <<>>
    /\ sched = "none"
    /\ newErr = "none"
    /\ ran = <<>>
    /\ drainResult = "none"
    /\ drainWhen = "none"

\* a call of New has run: go on or return the error
Advance(step, ok) ==
    /\ ran' = Append(ran, step)
    /\ apc' = AfterStep(step, ok)
    /\ newErr' = IF ok THEN (IF AfterStep(step, ok) = "built" THEN "nil" ELSE newErr)
                 ELSE step

\* New: config.Load and initLogger
LoadAndLog ==
    /\ apc \in {"config.Load", "initLogger"}
    /\ \E ok \in BOOLEAN : Advance(apc, ok)
    /\ UNCHANGED <<cfgAuth, authType, metricsSource, exporterURL, credsFile,
                   rootCancelled, collectorBuilt, conn, jetStreamChecked, subscribed,
                   sched, drainResult, drainWhen>>

\* New with the bootstrap leaving the auth type as configured
BootstrapKeepsAuthType ==
    /\ apc = "FetchCredentials"
    /\ IF authType # "pocketbase"
       THEN /\ apc' = AfterStep(apc, TRUE)
            /\ UNCHANGED <<authType, credsFile, ran, newErr>>
       ELSE \E ok \in BOOLEAN :
               /\ Advance(apc, ok)
               /\ credsFile' = ok
               /\ authType' = authType
    /\ UNCHANGED <<cfgAuth, metricsSource, exporterURL, rootCancelled, collectorBuilt,
                   conn, jetStreamChecked, subscribed, sched, drainResult, drainWhen>>

\* New: bootstrap.FetchCredentials when the auth type is pocketbase
Bootstrap ==
    /\ apc = "FetchCredentials"
    /\ IF authType # "pocketbase"
       THEN /\ apc' = AfterStep(apc, TRUE)
            /\ UNCHANGED <<authType, credsFile, ran, newErr>>
       ELSE \E ok \in BOOLEAN :
               /\ Advance(apc, ok)
               /\ credsFile' = ok
               /\ authType' = IF ok THEN "creds" ELSE authType
    /\ UNCHANGED <<cfgAuth, metricsSource, exporterURL, rootCancelled, collectorBuilt,
                   conn, jetStreamChecked, subscribed, sched, drainResult, drainWhen>>

\* New: tasks.NewExecutor, which constructs the collector
NewExecutor ==
    /\ apc = "NewExecutor"
    /\ collectorBuilt' = NewMetricsCollector(metricsSource, exporterURL)
    /\ Advance(apc, collectorBuilt' # "none")
    /\ rootCancelled' = (collectorBuilt' = "none")
    /\ UNCHANGED <<cfgAuth, authType, metricsSource, exporterURL, credsFile, conn,
                   jetStreamChecked, subscribed, sched, drainResult, drainWhen>>

\* NewClient returning the client without the answer of js.AccountInfo
NewClientUnchecked ==
    /\ apc = "NewClient"
    /\ \E o \in ClientOutcomes :
         /\ conn' = IF o \in {"ok", "AccountInfo fails"} THEN "connected"
                    ELSE IF o = "connect fails" THEN "none" ELSE "closed"
         /\ jetStreamChecked' = (o = "ok")
         /\ Advance(apc, o \in {"ok", "AccountInfo fails"})
         /\ rootCancelled' = (o \notin {"ok", "AccountInfo fails"})
    /\ UNCHANGED <<cfgAuth, authType, metricsSource, exporterURL, credsFile,
                   collectorBuilt, subscribed, sched, drainResult, drainWhen>>

\* New: natsclient.NewClient
NewClient ==
    /\ apc = "NewClient"
    /\ \E o \in ClientOutcomes :
         /\ conn' = IF o = "ok" THEN "connected"
                    ELSE IF o = "connect fails" THEN "none" ELSE "closed"
         /\ jetStreamChecked' = (o = "ok")
         /\ Advance(apc, o = "ok")
         /\ rootCancelled' = (o # "ok")
    /\ UNCHANGED <<cfgAuth, authType, metricsSource, exporterURL, credsFile,
                   collectorBuilt, subscribed, sched, drainResult, drainWhen>>

\* New: handlers.SubscribeAll; n subscriptions succeed before one fails
SubscribeAll ==
    /\ apc = "SubscribeAll"
    /\ \E n \in 0..Len(CommandSubjects) :
         /\ subscribed' = SubSeq(CommandSubjects, 1, n)
         /\ Advance(apc, n = Len(CommandSubjects))
         /\ rootCancelled' = (n < Len(CommandSubjects))
         /\ conn' = IF n < Len(CommandSubjects) THEN "closed" ELSE conn
    /\ UNCHANGED <<cfgAuth, authType, metricsSource, exporterURL, credsFile,
                   collectorBuilt, jetStreamChecked, sched, drainResult, drainWhen>>

\* New: scheduler.New
NewScheduler ==
    /\ apc = "scheduler.New"
    /\ \E ok \in BOOLEAN :
         /\ sched' = IF ok THEN "created" ELSE sched
         /\ Advance(apc, ok)
         /\ rootCancelled' = ~ok
         /\ conn' = IF ok THEN conn ELSE "closed"
    /\ UNCHANGED <<cfgAuth, authType, metricsSource, exporterURL, credsFile,
                   collectorBuilt, jetStreamChecked, subscribed, drainResult, drainWhen>>

\* Run: scheduler.Start, then wait for a signal
Run ==
    /\ apc = "built"
    /\ sched' = "running"
    /\ ran' = Append(ran, "scheduler.Start")
    /\ apc' = "waiting"
    /\ UNCHANGED <<cfgAuth, authType, metricsSource, exporterURL, credsFile,
                   rootCancelled, collectorBuilt, conn, jetStreamChecked, subscribed,
                   newErr, drainResult, drainWhen>>

\* the bus library gives up reconnecting and closes the connection
ConnectionLost ==
    /\ apc = "waiting"
    /\ conn = "connected"
    /\ conn' = "lost"
    /\ UNCHANGED <<apc, cfgAuth, authType, metricsSource, exporterURL, credsFile,
                   rootCancelled, collectorBuilt, jetStreamChecked, subscribed, sched,
                   newErr, ran, drainResult, drainWhen>>

\* Run: an interrupt or terminate signal arrives; Shutdown is entered
Signal ==
    /\ apc = "waiting"
    /\ apc' = Head(ShutdownSteps)
    /\ UNCHANGED <<cfgAuth, authType, metricsSource, exporterURL, credsFile,
                   rootCancelled, collectorBuilt, conn, jetStreamChecked, subscribed,
                   sched, newErr, ran, drainResult, drainWhen>>

\* a call of Shutdown has run
ShutdownAdvance(step) ==
    /\ ran' = Append(ran, step)
    /\ apc' = Following(ShutdownSteps, step, "exited")

\* Shutdown: a.cancel()
Cancel ==
    /\ apc = "cancel"
    /\ rootCancelled' = TRUE
    /\ ShutdownAdvance(apc)
    /\ UNCHANGED <<cfgAuth, authType, metricsSource, exporterURL, credsFile,
                   collectorBuilt, conn, jetStreamChecked, subscribed, sched, newErr,
                   drainResult, drainWhen>>

\* Shutdown: a.scheduler.Shutdown(); its error is only logged
SchedulerShutdown ==
    /\ apc = "scheduler.Shutdown"
    /\ sched' = "stopped"
    /\ ShutdownAdvance(apc)
    /\ UNCHANGED <<cfgAuth, authType, metricsSource, exporterURL, credsFile,
                   rootCancelled, collectorBuilt, conn, jetStreamChecked, subscribed,
                   newErr, drainResult, drainWhen>>

\* Client.Drain(timeout): the connection, the result and the time of the return
ClientDrain(c, o) ==
    IF c = "lost" \/ c = "closed"
    THEN [conn |-> c, result |-> "nil", when |-> "before timeout"]
    ELSE IF o = "closes"
    THEN [conn |-> "closed", result |-> "nil", when |-> "before timeout"]
    ELSE IF o = "still draining"
    THEN [conn |-> "draining", result |-> "nil", when |-> "before timeout"]
    ELSE IF o = "fails"
    THEN [conn |-> "closed", result |-> "error", when |-> "before timeout"]
    ELSE IF o = "fails open"
    THEN [conn |-> c, result |-> "error", when |-> "before timeout"]
    ELSE [conn |-> "closed", result |-> "drain timeout", when |-> "at timeout"]

\* Shutdown: a.nats.Drain
Drain ==
    /\ apc = "Drain"
    /\ \E o \in DrainOutcomes :
         \E r \in {ClientDrain(conn, o)} :
            /\ conn' = r.conn
            /\ drainResult' = r.result
            /\ drainWhen' = r.when
    /\ ShutdownAdvance(apc)
    /\ UNCHANGED <<cfgAuth, authType, metricsSource, exporterURL, credsFile,
                   rootCancelled, collectorBuilt, jetStreamChecked, subscribed, sched,
                   newErr>>

\* the bus library finishes a drain it was left with
DrainCompletes ==
    /\ conn = "draining"
    /\ conn' = "closed"
    /\ UNCHANGED <<apc, cfgAuth, authType, metricsSource, exporterURL, credsFile,
                   rootCancelled, collectorBuilt, jetStreamChecked, subscribed, sched,
                   newErr, ran, drainResult, drainWhen>>

\* Shutdown: a.logger.Sync(), and the return
Sync ==
    /\ apc = "Sync"
    /\ ShutdownAdvance(apc)
    /\ UNCHANGED <<cfgAuth, authType, metricsSource, exporterURL, credsFile,
                   rootCancelled, collectorBuilt, conn, jetStreamChecked, subscribed,
                   sched, newErr, drainResult, drainWhen>>

NextAgent ==
    \/ LoadAndLog \/ Bootstrap \/ NewExecutor \/ NewClient \/ SubscribeAll
    \/ NewScheduler \/ Run \/ ConnectionLost \/ Signal \/ Cancel \/ SchedulerShutdown
    \/ Drain \/ DrainCompletes \/ Sync

\* the position of step in the log of the steps that ran; 0: it did not run
RanAt(step) ==
    IF \E i \in 1..Len(ran) : ran[i] = step
    THEN CHOOSE i \in 1..Len(ran) : ran[i] = step ELSE 0

\* step a ran, and ran before step b
RanBefore(a, b) == RanAt(a) > 0 /\ RanAt(a) < RanAt(b)

\* C8: Shutdown cancels the root token, then stops the scheduler, and starts
\* draining the bus only after the scheduler's shutdown has returned; the
\* connection is never drained or closed by the agent while the scheduler runs.
C8_SchedulerStopsBeforeDrain ==
    /\ conn \in {"draining", "closed"} => sched # "running"
    /\ RanAt("Drain") > 0 =>
          (RanBefore("cancel", "scheduler.Shutdown")
           /\ RanBefore("scheduler.Shutdown", "Drain") /\ rootCancelled)

\* Shutdown has drained the bus of an agent whose scheduler ran
C8_Witness ==
    /\ RanAt("scheduler.Start") > 0
    /\ RanAt("Drain") > 0
    /\ conn \in {"draining", "closed"}
    /\ sched = "stopped"

\* C9: Drain returns within the timeout, nil when draining finished in time and
\* the timeout error after a forced close otherwise, and the connection is
\* closed in every outcome when it returns.
C9_DrainReturnsClosed ==
    (apc = "Sync" /\ drainResult # "none") =>
        /\ drainResult \in {"nil", "drain timeout"}
        /\ conn \in {"closed", "lost"}

\* the steps New has to complete before the scheduler starts, for a configuration
StartupOrder(auth) ==
    <<"config.Load", "initLogger">>
    \o (IF auth = "pocketbase" THEN <<"FetchCredentials">> ELSE <<>>)
    \o <<"NewExecutor", "NewClient", "SubscribeAll", "scheduler.New", "scheduler.Start">>

\* C10: the scheduler is started only after credential bootstrap (when
\* configured), collector construction, bus connection with the durable-stream
\* check and all five subscriptions succeeded, in this order; when a step
\* fails no later step runs and New returns an error.
C10_StartupOrder ==
    /\ sched = "running" =>
          /\ SubSeq(ran, 1, RanAt("scheduler.Start")) = StartupOrder(cfgAuth)
          /\ newErr = "nil"
          /\ cfgAuth = "pocketbase" => credsFile
          /\ collectorBuilt # "none"
          /\ jetStreamChecked
          /\ subscribed = CommandSubjects
    /\ apc = "failed" =>
          /\ newErr = Last(ran)
          /\ sched = "none"
          /\ RanAt("scheduler.Start") = 0

\* the scheduler runs in an agent that bootstrapped its credentials
C10_Witness ==
    /\ sched = "running"
    /\ cfgAuth = "pocketbase"
    /\ collectorBuilt = "exporter"

\* C23: New goes on from NewClient only with a connection whose durable
\* stream answered the check; when NewClient fails the connection it opened is
\* closed, New returns its error, and nothing is subscribed or scheduled; so
\* handlers and jobs exist only on a checked connection.
C23_ClientOnlyAfterStreamCheck ==
    /\ (RanAt("NewClient") > 0 /\ newErr # "NewClient") => jetStreamChecked
    /\ newErr = "NewClient" =>
          /\ apc = "failed"
          /\ conn \in {"none", "closed"}
          /\ subscribed = <<>>
          /\ sched = "none"
    /\ (subscribed # <<>> \/ sched # "none") => jetStreamChecked

\* NewClient connected, the check failed, and the connection is closed
C23_Witness ==
    /\ newErr = "NewClient"
    /\ conn = "closed"
    /\ ~jetStreamChecked

\* C26: when New reaches or has passed NewClient from a pocketbase
\* configuration, the auth type the client sees is the credentials-file type
\* and the credentials file exists; NewClient is never called with the auth
\* type pocketbase.
C26_ClientSeesCredentialsAuth ==
    (apc = "NewClient" \/ RanAt("NewClient") > 0) =>
        /\ authType # "pocketbase"
        /\ cfgAuth = "pocketbase" => (authType = "creds" /\ credsFile)

C26_Witness ==
    /\ RanAt("NewClient") > 0
    /\ cfgAuth = "pocketbase"
    /\ authType = "creds"
    /\ conn = "connected"

vars ==
    <<collectorVars, sampleVars, execVars, logVars, bashVars, serviceVars,
      gateVars, statusVars, winStopVars, handlerVars, xVars, statVars, bootVars,
      pubVars, waitVars, schedVars, agentVars>>

\* the parts of the agent a specification leaves at rest
RestCollector == InitCollector /\ kind = "builtin"
RestSamples == InitSamples /\ collectorKind = "builtin"
RestExec == InitExec /\ allowedCommands = <<>> /\ scriptsDir = <<>>
RestLogs == InitLogs /\ allowedLogPaths = <<>> /\ logFiles[MainLog] = "none" /\ logFiles[SubDir] = "none"
RestBash == InitBash /\ bashTimeout = 1
RestService == InitService /\ platform = "other" /\ allowedServices = <<>>
RestGate == InitGate /\ gateName = "" /\ gateAllowed = <<>>
RestStatus == InitStatus /\ stPlatform = "other"
RestWinStop == InitWinStop
RestHandlers == InitHandlers
RestExecReply == InitExecReply
RestStats == InitStats
RestBoot == InitBoot
RestPublish == InitPublish
RestWaits == InitWaits /\ opPlatform = "other"
RestScheduler == InitScheduler
RestAgent == InitAgent /\ cfgAuth = "creds" /\ metricsSource = "" /\ ~exporterURL

InitOfCollector ==
    InitCollector /\ RestSamples /\ RestExec /\ RestLogs /\ RestBash /\
    RestService /\ RestGate /\ RestStatus /\ RestWinStop /\ RestHandlers /\
    RestExecReply /\ RestStats /\ RestBoot /\ RestPublish /\ RestWaits /\
    RestScheduler /\ RestAgent
InitOfSamples ==
    RestCollector /\ InitSamples /\ RestExec /\ RestLogs /\ RestBash /\
    RestService /\ RestGate /\ RestStatus /\ RestWinStop /\ RestHandlers /\
    RestExecReply /\ RestStats /\ RestBoot /\ RestPublish /\ RestWaits /\
    RestScheduler /\ RestAgent
InitOfExec ==
    RestCollector /\ RestSamples /\ InitExec /\ RestLogs /\ RestBash /\
    RestService /\ RestGate /\ RestStatus /\ RestWinStop /\ RestHandlers /\
    RestExecReply /\ RestStats /\ RestBoot /\ RestPublish /\ RestWaits /\
    RestScheduler /\ RestAgent
InitOfLogs ==
    RestCollector /\ RestSamples /\ RestExec /\ InitLogs /\ RestBash /\
    RestService /\ RestGate /\ RestStatus /\ RestWinStop /\ RestHandlers /\
    RestExecReply /\ RestStats /\ RestBoot /\ RestPublish /\ RestWaits /\
    RestScheduler /\ RestAgent
InitOfBash ==
    RestCollector /\ RestSamples /\ RestExec /\ RestLogs /\ InitBash /\
    RestService /\ RestGate /\ RestStatus /\ RestWinStop /\ RestHandlers /\
    RestExecReply /\ RestStats /\ RestBoot /\ RestPublish /\ RestWaits /\
    RestScheduler /\ RestAgent
InitOfService ==
    RestCollector /\ RestSamples /\ RestExec /\ RestLogs /\ RestBash /\
    InitService /\ RestGate /\ RestStatus /\ RestWinStop /\ RestHandlers /\
    RestExecReply /\ RestStats /\ RestBoot /\ RestPublish /\ RestWaits /\
    RestScheduler /\ RestAgent
InitOfGate ==
    RestCollector /\ RestSamples /\ RestExec /\ RestLogs /\ RestBash /\
    RestService /\ InitGate /\ RestStatus /\ RestWinStop /\ RestHandlers /\
    RestExecReply /\ RestStats /\ RestBoot /\ RestPublish /\ RestWaits /\
    RestScheduler /\ RestAgent
InitOfStatus ==
    RestCollector /\ RestSamples /\ RestExec /\ RestLogs /\ RestBash /\
    RestService /\ RestGate /\ InitStatus /\ RestWinStop /\ RestHandlers /\
    RestExecReply /\ RestStats /\ RestBoot /\ RestPublish /\ RestWaits /\
    RestScheduler /\ RestAgent
InitOfWinStop ==
    RestCollector /\ RestSamples /\ RestExec /\ RestLogs /\ RestBash /\
    RestService /\ RestGate /\ RestStatus /\ InitWinStop /\ RestHandlers /\
    RestExecReply /\ RestStats /\ RestBoot /\ RestPublish /\ RestWaits /\
    RestScheduler /\ RestAgent
InitOfHandlers ==
    RestCollector /\ RestSamples /\ RestExec /\ RestLogs /\ RestBash /\
    RestService /\ RestGate /\ RestStatus /\ RestWinStop /\ InitHandlers /\
    RestExecReply /\ RestStats /\ RestBoot /\ RestPublish /\ RestWaits /\
    RestScheduler /\ RestAgent
InitOfExecReply ==
    RestCollector /\ RestSamples /\ RestExec /\ RestLogs /\ RestBash /\
    RestService /\ RestGate /\ RestStatus /\ RestWinStop /\ RestHandlers /\
    InitExecReply /\ RestStats /\ RestBoot /\ RestPublish /\ RestWaits /\
    RestScheduler /\ RestAgent
InitOfStats ==
    RestCollector /\ RestSamples /\ RestExec /\ RestLogs /\ RestBash /\
    RestService /\ RestGate /\ RestStatus /\ RestWinStop /\ RestHandlers /\
    RestExecReply /\ InitStats /\ RestBoot /\ RestPublish /\ RestWaits /\
    RestScheduler /\ RestAgent
InitOfBoot ==
    RestCollector /\ RestSamples /\ RestExec /\ RestLogs /\ RestBash /\
    RestService /\ RestGate /\ RestStatus /\ RestWinStop /\ RestHandlers /\
    RestExecReply /\ RestStats /\ InitBoot /\ RestPublish /\ RestWaits /\
    RestScheduler /\ RestAgent
InitOfPublish ==
    RestCollector /\ RestSamples /\ RestExec /\ RestLogs /\ RestBash /\
    RestService /\ RestGate /\ RestStatus /\ RestWinStop /\ RestHandlers /\
    RestExecReply /\ RestStats /\ RestBoot /\ InitPublish /\ RestWaits /\
    RestScheduler /\ RestAgent
InitOfWaits ==
    RestCollector /\ RestSamples /\ RestExec /\ RestLogs /\ RestBash /\
    RestService /\ RestGate /\ RestStatus /\ RestWinStop /\ RestHandlers /\
    RestExecReply /\ RestStats /\ RestBoot /\ RestPublish /\ InitWaits /\
    RestScheduler /\ RestAgent
InitOfScheduler ==
    RestCollector /\ RestSamples /\ RestExec /\ RestLogs /\ RestBash /\
    RestService /\ RestGate /\ RestStatus /\ RestWinStop /\ RestHandlers /\
    RestExecReply /\ RestStats /\ RestBoot /\ RestPublish /\ RestWaits /\
    InitScheduler /\ RestAgent
InitOfAgent ==
    RestCollector /\ RestSamples /\ RestExec /\ RestLogs /\ RestBash /\
    RestService /\ RestGate /\ RestStatus /\ RestWinStop /\ RestHandlers /\
    RestExecReply /\ RestStats /\ RestBoot /\ RestPublish /\ RestWaits /\
    RestScheduler /\ InitAgent

SpecCollector ==
    InitOfCollector
    /\ [][NextCollector /\ UNCHANGED
             <<sampleVars, execVars, logVars, bashVars, serviceVars, gateVars,
               statusVars, winStopVars, handlerVars, xVars, statVars, bootVars,
               pubVars, waitVars, schedVars, agentVars>>]_vars

SpecSamples ==
    InitOfSamples
    /\ [][NextSamples /\ UNCHANGED
             <<collectorVars, execVars, logVars, bashVars, serviceVars, gateVars,
               statusVars, winStopVars, handlerVars, xVars, statVars, bootVars,
               pubVars, waitVars, schedVars, agentVars>>]_vars

SpecExec ==
    InitOfExec
    /\ [][NextExec /\ UNCHANGED
             <<collectorVars, sampleVars, logVars, bashVars, serviceVars, gateVars,
               statusVars, winStopVars, handlerVars, xVars, statVars, bootVars,
               pubVars, waitVars, schedVars, agentVars>>]_vars

SpecLogs ==
    InitOfLogs
    /\ [][NextLogs /\ UNCHANGED
             <<collectorVars, sampleVars, execVars, bashVars, serviceVars,
               gateVars, statusVars, winStopVars, handlerVars, xVars, statVars,
               bootVars, pubVars, waitVars, schedVars, agentVars>>]_vars

SpecBash ==
    InitOfBash
    /\ [][NextBash /\ UNCHANGED
             <<collectorVars, sampleVars, execVars, logVars, serviceVars, gateVars,
               statusVars, winStopVars, handlerVars, xVars, statVars, bootVars,
               pubVars, waitVars, schedVars, agentVars>>]_vars

SpecService ==
    InitOfService
    /\ [][NextService /\ UNCHANGED
             <<collectorVars, sampleVars, execVars, logVars, bashVars, gateVars,
               statusVars, winStopVars, handlerVars, xVars, statVars, bootVars,
               pubVars, waitVars, schedVars, agentVars>>]_vars

SpecGate ==
    InitOfGate
    /\ [][NextGate /\ UNCHANGED
             <<collectorVars, sampleVars, execVars, logVars, bashVars, serviceVars,
               statusVars, winStopVars, handlerVars, xVars, statVars, bootVars,
               pubVars, waitVars, schedVars, agentVars>>]_vars

SpecStatus ==
    InitOfStatus
    /\ [][NextStatus /\ UNCHANGED
             <<collectorVars, sampleVars, execVars, logVars, bashVars, serviceVars,
               gateVars, winStopVars, handlerVars, xVars, statVars, bootVars,
               pubVars, waitVars, schedVars, agentVars>>]_vars

SpecWinStop ==
    InitOfWinStop
    /\ [][NextWinStop /\ UNCHANGED
             <<collectorVars, sampleVars, execVars, logVars, bashVars, serviceVars,
               gateVars, statusVars, handlerVars, xVars, statVars, bootVars,
               pubVars, waitVars, schedVars, agentVars>>]_vars

SpecHandlers ==
    InitOfHandlers
    /\ [][NextHandlers /\ UNCHANGED
             <<collectorVars, sampleVars, execVars, logVars, bashVars, serviceVars,
               gateVars, statusVars, winStopVars, xVars, statVars, bootVars,
               pubVars, waitVars, schedVars, agentVars>>]_vars

SpecExecReply ==
    InitOfExecReply
    /\ [][NextExecReply /\ UNCHANGED
             <<collectorVars, sampleVars, execVars, logVars, bashVars, serviceVars,
               gateVars, statusVars, winStopVars, handlerVars, statVars, bootVars,
               pubVars, waitVars, schedVars, agentVars>>]_vars

SpecStats ==
    InitOfStats
    /\ [][NextStats /\ UNCHANGED
             <<collectorVars, sampleVars, execVars, logVars, bashVars, serviceVars,
               gateVars, statusVars, winStopVars, handlerVars, xVars, bootVars,
               pubVars, waitVars, schedVars, agentVars>>]_vars

SpecBoot ==
    InitOfBoot
    /\ [][NextBoot /\ UNCHANGED
             <<collectorVars, sampleVars, execVars, logVars, bashVars, serviceVars,
               gateVars, statusVars, winStopVars, handlerVars, xVars, statVars,
               pubVars, waitVars, schedVars, agentVars>>]_vars

SpecPublish ==
    InitOfPublish
    /\ [][NextPublish /\ UNCHANGED
             <<collectorVars, sampleVars, execVars, logVars, bashVars, serviceVars,
               gateVars, statusVars, winStopVars, handlerVars, xVars, statVars,
               bootVars, waitVars, schedVars, agentVars>>]_vars

SpecWaits ==
    InitOfWaits
    /\ [][NextWaits /\ UNCHANGED
             <<collectorVars, sampleVars, execVars, logVars, bashVars, serviceVars,
               gateVars, statusVars, winStopVars, handlerVars, xVars, statVars,
               bootVars, pubVars, schedVars, agentVars>>]_vars

SpecScheduler ==
    InitOfScheduler
    /\ [][NextScheduler /\ UNCHANGED
             <<collectorVars, sampleVars, execVars, logVars, bashVars, serviceVars,
               gateVars, statusVars, winStopVars, handlerVars, xVars, statVars,
               bootVars, pubVars, waitVars, agentVars>>]_vars

SpecAgent ==
    InitOfAgent
    /\ [][NextAgent /\ UNCHANGED
             <<collectorVars, sampleVars, execVars, logVars, bashVars, serviceVars,
               gateVars, statusVars, winStopVars, handlerVars, xVars, statVars,
               bootVars, pubVars, waitVars, schedVars>>]_vars

SpecConcurrent ==
    InitOfSamples
    /\ [][NextConcurrent /\ UNCHANGED
             <<collectorVars, execVars, logVars, bashVars, serviceVars, gateVars,
               statusVars, winStopVars, handlerVars, xVars, statVars, bootVars,
               pubVars, waitVars, schedVars, agentVars>>]_vars

InitOfTail ==
    RestCollector /\ RestSamples /\ RestExec /\ InitTail /\ RestBash /\
    RestService /\ RestGate /\ RestStatus /\ RestWinStop /\ RestHandlers /\
    RestExecReply /\ RestStats /\ RestBoot /\ RestPublish /\ RestWaits /\
    RestScheduler /\ RestAgent

SpecTail ==
    InitOfTail
    /\ [][NextTail /\ UNCHANGED
             <<collectorVars, sampleVars, execVars, bashVars, serviceVars,
               gateVars, statusVars, winStopVars, handlerVars, xVars, statVars,
               bootVars, pubVars, waitVars, schedVars, agentVars>>]_vars

====
